---- MODULE Spec2Model ----
(***************************************************************************)
(* Model of the OpenCode MCP bridge (src/src/index.ts): the handle and     *)
(* cursor codecs, the paginated message reader opencode_get_messages and   *)
(* the reply correlator opencode_wait_for_reply.                           *)
(*                                                                         *)
(* A JavaScript string is a sequence of UTF-16 code units (integers), a    *)
(* Buffer a sequence of bytes (0..255).  JSON texts, base64url tokens and  *)
(* UTF-8 byte strings are all built and taken apart unit by unit, as       *)
(* JSON.stringify / JSON.parse / Buffer do.                                *)
(***************************************************************************)
EXTENDS Integers, Sequences, FiniteSets, TLC

---------------------------------------------------------------------------
(* Text primitives.                                                        *)

\* The printable ASCII characters, code 32 (space) to 126 (~); the grave
\* accent (code 96), which a TLA+ string cannot hold, is spelled GRAVE.
Ascii ==
    <<
       " ", "!", "\"", "#", "$", "%", "&", "'", "(", ")", "*", "+", ",", "-", ".", "/",
       "0", "1", "2", "3", "4", "5", "6", "7", "8", "9", ":", ";", "<", "=", ">", "?",
       "@", "A", "B", "C", "D", "E", "F", "G", "H", "I", "J", "K", "L", "M", "N", "O",
       "P", "Q", "R", "S", "T", "U", "V", "W", "X", "Y", "Z", "[", "\\", "]", "^", "_",
       "GRAVE", "a", "b", "c", "d", "e", "f", "g", "h", "i", "j", "k", "l", "m", "n", "o",
       "p", "q", "r", "s", "t", "u", "v", "w", "x", "y", "z", "{", "|", "}", "~"
    >>

\* The code unit of each printable ASCII character.
AsciiCode ==
    [c \in {Ascii[i] : i \in 1..Len(Ascii)} |->
        31 + (CHOOSE i \in 1..Len(Ascii) : Ascii[i] = c)]

Ord(c) == AsciiCode[c]

\* The JavaScript string spelled by a sequence of printable characters.
Txt(q) == [i \in 1..Len(q) |-> Ord(q[i])]

\* The base64url alphabet of Buffer.toString("base64url"): sextet v is written
\* as B64Alphabet[v + 1].
B64Alphabet ==
    Txt(<<"A", "B", "C", "D", "E", "F", "G", "H", "I", "J", "K", "L", "M", "N", "O", "P", "Q", "R", "S", "T", "U", "V", "W", "X", "Y", "Z", "a", "b", "c", "d", "e", "f", "g", "h", "i", "j", "k", "l", "m", "n", "o", "p", "q", "r", "s", "t", "u", "v", "w", "x", "y", "z", "0", "1", "2", "3", "4", "5", "6", "7", "8", "9", "-", "_">>)

RECURSIVE FlattenRange(_, _, _)
\* The concatenation of the sequences qs[lo], ..., qs[hi], by halves.
FlattenRange(qs, lo, hi) ==
    IF lo > hi THEN <<>>
    ELSE IF lo = hi THEN qs[lo]
    ELSE LET mid == (lo + hi) \div 2 IN
        FlattenRange(qs, lo, mid) \o FlattenRange(qs, mid + 1, hi)

\* The concatenation of a sequence of sequences.
Flatten(qs) == FlattenRange(qs, 1, Len(qs))

---------------------------------------------------------------------------
(* JavaScript numbers.  An integer-valued number is kept exactly; any      *)
(* other finite number is kept by its integer part only, which is all the  *)
(* code ever asks of it (typeof, Number.isInteger, < 0); NaN is apart.     *)

NumInt(n) == [k |-> "int", v |-> n]
\* An integer of ten digits or more, kept as its decimal digits (a double
\* holds every integer up to 2^53 exactly).
NumBig(digits, neg) == [k |-> "big", digits |-> digits, neg |-> neg]
NumFrac(n, neg) == [k |-> "frac", v |-> n, neg |-> neg]
NumNaN == [k |-> "nan", v |-> 0]

\* Number.isInteger(x)
NumberIsInteger(x) == x.k \in {"int", "big"}

\* x < 0 for a number x (false for NaN).
NumberIsNegative(x) ==
    \/ x.k = "int" /\ x.v < 0
    \/ x.k = "big" /\ x.neg
    \/ x.k = "frac" /\ x.neg

RECURSIVE DigitsOf(_)
\* The decimal digits of a natural number, most significant first.
DigitsOf(n) ==
    IF n < 10 THEN <<48 + n>> ELSE DigitsOf(n \div 10) \o <<48 + (n % 10)>>

\* JSON.stringify of an integer-valued number.
NumberText(n) == IF n < 0 THEN <<45>> \o DigitsOf(0 - n) ELSE DigitsOf(n)

---------------------------------------------------------------------------
(* JSON.stringify of strings.                                              *)

IsHighSurrogate(c) == c >= 55296 /\ c <= 56319
IsLowSurrogate(c) == c >= 56320 /\ c <= 57343

\* One lower-case hexadecimal digit.
HexDigit(d) == IF d < 10 THEN 48 + d ELSE 87 + d

\* The \uXXXX escape of a code unit.
UnicodeEscape(c) ==
    <<92, 117, HexDigit(c \div 4096), HexDigit((c \div 256) % 16),
      HexDigit((c \div 16) % 16), HexDigit(c % 16)>>

\* What JSON.stringify writes for the code unit s[i] of a string: the quote,
\* the backslash and the control characters are escaped, and so is a surrogate
\* that is not half of a pair (well-formed JSON.stringify).
\* JSON.stringify without its escapes.
QuoteUnitUnescaped(s, i) == <<s[i]>>

QuoteUnit(s, i) ==
    LET c == s[i] IN
    IF c = 34 THEN <<92, 34>>
    ELSE IF c = 92 THEN <<92, 92>>
    ELSE IF c = 8 THEN <<92, 98>>
    ELSE IF c = 9 THEN <<92, 116>>
    ELSE IF c = 10 THEN <<92, 110>>
    ELSE IF c = 12 THEN <<92, 102>>
    ELSE IF c = 13 THEN <<92, 114>>
    ELSE IF c < 32 THEN UnicodeEscape(c)
    ELSE IF IsHighSurrogate(c) /\ ~(i < Len(s) /\ IsLowSurrogate(s[i + 1]))
        THEN UnicodeEscape(c)
    ELSE IF IsLowSurrogate(c) /\ ~(i > 1 /\ IsHighSurrogate(s[i - 1]))
        THEN UnicodeEscape(c)
    ELSE <<c>>

\* Whether JSON.stringify writes the code unit c as it is, wherever it
\* stands.
IsPlainUnit(c) == c >= 32 /\ c # 34 /\ c # 92 /\ (c < 55296 \/ c > 57343)

\* JSON.stringify of a string value.
QuoteJSON(s) ==
    IF \A i \in 1..Len(s) : IsPlainUnit(s[i]) THEN <<34>> \o s \o <<34>>
    ELSE <<34>> \o Flatten([i \in 1..Len(s) |-> QuoteUnit(s, i)]) \o <<34>>

---------------------------------------------------------------------------
(* Buffer: UTF-8 and base64url.                                            *)

IsContinuation(b) == b >= 128 /\ b <= 191

\* The bytes Buffer.from(s) writes for the code unit s[i]: a surrogate pair
\* gives four bytes (written at its first half), a lone surrogate the three
\* bytes of U+FFFD.
Utf8UnitBytes(s, i) ==
    LET c == s[i] IN
    IF c < 128 THEN <<c>>
    ELSE IF c < 2048 THEN <<192 + (c \div 64), 128 + (c % 64)>>
    ELSE IF IsHighSurrogate(c) /\ i < Len(s) /\ IsLowSurrogate(s[i + 1])
        THEN LET cp == 65536 + (c - 55296) * 1024 + (s[i + 1] - 56320) IN
            <<240 + (cp \div 262144), 128 + ((cp \div 4096) % 64),
              128 + ((cp \div 64) % 64), 128 + (cp % 64)>>
    ELSE IF IsLowSurrogate(c) /\ i > 1 /\ IsHighSurrogate(s[i - 1]) THEN <<>>
    ELSE IF IsHighSurrogate(c) \/ IsLowSurrogate(c) THEN <<239, 191, 189>>
    ELSE <<224 + (c \div 4096), 128 + ((c \div 64) % 64), 128 + (c % 64)>>

\* Buffer.from(s, "utf8")
Utf8Encode(s) == Flatten([i \in 1..Len(s) |-> Utf8UnitBytes(s, i)])

\* The length of the well-formed UTF-8 sequence that starts at byte i, or 1
\* when none does (one ASCII byte, or one byte to replace by U+FFFD).
Utf8SequenceLength(b, i) ==
    LET c == b[i] IN
    IF /\ c >= 194 /\ c <= 223
       /\ i + 1 <= Len(b) /\ IsContinuation(b[i + 1])
        THEN 2
    ELSE IF /\ c >= 224 /\ c <= 239
            /\ i + 2 <= Len(b) /\ IsContinuation(b[i + 1])
            /\ IsContinuation(b[i + 2])
            /\ (c = 224 => b[i + 1] >= 160)
            /\ (c = 237 => b[i + 1] <= 159)
        THEN 3
    ELSE IF /\ c >= 240 /\ c <= 244
            /\ i + 3 <= Len(b) /\ IsContinuation(b[i + 1])
            /\ IsContinuation(b[i + 2]) /\ IsContinuation(b[i + 3])
            /\ (c = 240 => b[i + 1] >= 144)
            /\ (c = 244 => b[i + 1] <= 143)
        THEN 4
    ELSE 1

\* Whether byte i is a continuation byte of a well-formed sequence that
\* starts before it (a lead byte is never part of another sequence).
Utf8Covered(b, i) ==
    \E k \in 1..3 : i - k >= 1 /\ Utf8SequenceLength(b, i - k) > k

\* The code units buffer.toString("utf8") reads at byte i: none for a byte
\* inside a sequence, U+FFFD for a byte that starts no well-formed sequence.
Utf8UnitsAt(b, i) ==
    LET c == b[i]
        n == Utf8SequenceLength(b, i)
    IN  IF Utf8Covered(b, i) THEN <<>>
        ELSE IF c < 128 THEN <<c>>
        ELSE IF n = 2 THEN <<(c - 192) * 64 + (b[i + 1] - 128)>>
        ELSE IF n = 3
            THEN <<(c - 224) * 4096 + (b[i + 1] - 128) * 64 + (b[i + 2] - 128)>>
        ELSE IF n = 4
            THEN LET cp == (c - 240) * 262144 + (b[i + 1] - 128) * 4096
                           + (b[i + 2] - 128) * 64 + (b[i + 3] - 128) - 65536 IN
                <<55296 + (cp \div 1024), 56320 + (cp % 1024)>>
        ELSE <<65533>>

\* buffer.toString("utf8")
Utf8Decode(b) == Flatten([i \in 1..Len(b) |-> Utf8UnitsAt(b, i)])

\* The characters buffer.toString("base64url") writes for the group of up to
\* three bytes that starts at byte i: four for three bytes, two or three for
\* a last group of one or two bytes (no padding).
Base64UrlGroup(b, i) ==
    LET left == Len(b) - i + 1 IN
    IF left = 1
        THEN <<B64Alphabet[(b[i] \div 4) + 1], B64Alphabet[(b[i] % 4) * 16 + 1]>>
    ELSE IF left = 2
        THEN <<B64Alphabet[(b[i] \div 4) + 1],
               B64Alphabet[(b[i] % 4) * 16 + (b[i + 1] \div 16) + 1],
               B64Alphabet[(b[i + 1] % 16) * 4 + 1]>>
    ELSE <<B64Alphabet[(b[i] \div 4) + 1],
           B64Alphabet[(b[i] % 4) * 16 + (b[i + 1] \div 16) + 1],
           B64Alphabet[(b[i + 1] % 16) * 4 + (b[i + 2] \div 64) + 1],
           B64Alphabet[(b[i + 2] % 64) + 1]>>

\* buffer.toString("base64url")
Base64UrlEncode(b) ==
    Flatten([g \in 1..((Len(b) + 2) \div 3) |-> Base64UrlGroup(b, 3 * g - 2)])

\* The sextet a character stands for in Buffer.from(s, "base64url"), which
\* reads both the URL-safe and the standard alphabet; 64 for any other
\* character.
Unbase64(c) ==
    IF c >= 65 /\ c <= 90 THEN c - 65
    ELSE IF c >= 97 /\ c <= 122 THEN c - 71
    ELSE IF c >= 48 /\ c <= 57 THEN c + 4
    ELSE IF c = 45 \/ c = 43 THEN 62
    ELSE IF c = 95 \/ c = 47 THEN 63
    ELSE 64

\* The sextets Buffer.from(s, "base64url") reads: a character outside the
\* alphabet is skipped, the first "=" ends the input.
Base64Sextets(s) ==
    LET stops == {i \in 1..Len(s) : s[i] = 61}
        end == IF stops = {} THEN Len(s)
               ELSE (CHOOSE i \in stops : \A j \in stops : i <= j) - 1
        legal == SelectSeq(SubSeq(s, 1, end), LAMBDA c : Unbase64(c) # 64)
    IN  [i \in 1..Len(legal) |-> Unbase64(legal[i])]

\* The bytes of the group of up to four sextets that starts at sextet i:
\* three for four sextets, one or two for a last group of two or three
\* sextets, none for a last single sextet.
SextetGroupBytes(x, i) ==
    LET left == Len(x) - i + 1 IN
    IF left = 1 THEN <<>>
    ELSE IF left = 2 THEN <<x[i] * 4 + (x[i + 1] \div 16)>>
    ELSE IF left = 3
        THEN <<x[i] * 4 + (x[i + 1] \div 16),
               (x[i + 1] % 16) * 16 + (x[i + 2] \div 4)>>
    ELSE <<x[i] * 4 + (x[i + 1] \div 16),
           (x[i + 1] % 16) * 16 + (x[i + 2] \div 4),
           (x[i + 2] % 4) * 64 + x[i + 3]>>

\* Buffer.from(s, "base64url")
Base64UrlDecode(s) ==
    LET x == Base64Sextets(s) IN
    Flatten([g \in 1..((Len(x) + 3) \div 4) |-> SextetGroupBytes(x, 4 * g - 3)])

---------------------------------------------------------------------------
(* JSON values and JSON.parse.  The grammar read is JSON without number    *)
(* exponents.                                                              *)

JNull == [t |-> "null"]
JUndefined == [t |-> "undefined"]
JBool(b) == [t |-> "boolean", b |-> b]
JNum(n) == [t |-> "number", n |-> n]
JStr(s) == [t |-> "string", s |-> s]
\* An object is the sequence of its members [k |-> key, v |-> value], in the
\* order they were written.
JObj(m) == [t |-> "object", m |-> m]
JArr(a) == [t |-> "array", a |-> a]

\* typeof v
TypeOf(v) ==
    IF v.t \in {"null", "object", "array"} THEN "object" ELSE v.t

ParseFail == [ok |-> FALSE, v |-> JNull, i |-> 0]
ParseOk(v, i) == [ok |-> TRUE, v |-> v, i |-> i]

IsWhitespace(c) == c \in {32, 9, 10, 13}
IsDigit(c) == c >= 48 /\ c <= 57
IsHexDigit(c) ==
    IsDigit(c) \/ (c >= 97 /\ c <= 102) \/ (c >= 65 /\ c <= 70)
HexValue(c) ==
    IF IsDigit(c) THEN c - 48 ELSE IF c >= 97 THEN c - 87 ELSE c - 55

\* The character a one-letter escape stands for, or -1.
SimpleEscape(e) ==
    IF e = 34 THEN 34
    ELSE IF e = 92 THEN 92
    ELSE IF e = 47 THEN 47
    ELSE IF e = 98 THEN 8
    ELSE IF e = 102 THEN 12
    ELSE IF e = 110 THEN 10
    ELSE IF e = 114 THEN 13
    ELSE IF e = 116 THEN 9
    ELSE 0 - 1

RECURSIVE SkipWhitespace(_, _)
SkipWhitespace(t, i) ==
    IF i <= Len(t) /\ IsWhitespace(t[i]) THEN SkipWhitespace(t, i + 1) ELSE i

\* Whether text t holds the word w from position i.
HasWordAt(t, i, w) ==
    i + Len(w) - 1 <= Len(t) /\ SubSeq(t, i, i + Len(w) - 1) = w

RECURSIVE ParseStringBody(_, _, _)
\* The rest of a string literal, after its opening quote; acc is the string
\* read so far.
ParseStringBody(t, i, acc) ==
    IF i > Len(t) THEN ParseFail
    ELSE LET c == t[i] IN
        IF c = 34 THEN ParseOk(JStr(acc), i + 1)
        ELSE IF c < 32 THEN ParseFail
        ELSE IF c # 92 THEN ParseStringBody(t, i + 1, Append(acc, c))
        ELSE IF i + 1 > Len(t) THEN ParseFail
        ELSE IF t[i + 1] = 117
            THEN IF i + 5 <= Len(t) /\ \A k \in 2..5 : IsHexDigit(t[i + k])
                THEN ParseStringBody(t, i + 6,
                        Append(acc, HexValue(t[i + 2]) * 4096
                                    + HexValue(t[i + 3]) * 256
                                    + HexValue(t[i + 4]) * 16
                                    + HexValue(t[i + 5])))
                ELSE ParseFail
        ELSE IF SimpleEscape(t[i + 1]) >= 0
            THEN ParseStringBody(t, i + 2, Append(acc, SimpleEscape(t[i + 1])))
        ELSE ParseFail

RECURSIVE DigitsEnd(_, _)
\* The position after the run of digits that starts at i.
DigitsEnd(t, i) ==
    IF i <= Len(t) /\ IsDigit(t[i]) THEN DigitsEnd(t, i + 1) ELSE i

RECURSIVE DigitsValue(_, _, _)
\* The natural number written by the digits t[i..j-1].
DigitsValue(t, i, j) ==
    IF i >= j THEN 0 ELSE DigitsValue(t, i, j - 1) * 10 + (t[j - 1] - 48)

RECURSIVE ZerosEnd(_, _, _)
\* The position after the leading zeros of the digits t[i..j-1], the last
\* digit never counted as one.
ZerosEnd(t, i, j) ==
    IF i < j - 1 /\ t[i] = 48 THEN ZerosEnd(t, i + 1, j) ELSE i

\* The integer written by the digits t[i..j-1], negated if neg.
IntegerOfDigits(t, i, j, neg) ==
    LET a == ZerosEnd(t, i, j) IN
    IF j - a <= 9
        THEN NumInt(IF neg THEN 0 - DigitsValue(t, a, j) ELSE DigitsValue(t, a, j))
    ELSE NumBig(SubSeq(t, a, j - 1), neg)

\* A number literal at position i: -? (0 | [1-9][0-9]*) (. [0-9]+)?
ParseNumber(t, i) ==
    LET neg == i <= Len(t) /\ t[i] = 45
        a == IF neg THEN i + 1 ELSE i
        b == IF a <= Len(t) /\ t[a] = 48 THEN a + 1 ELSE DigitsEnd(t, a)
        hasFrac == b <= Len(t) /\ t[b] = 46
        c == IF hasFrac THEN DigitsEnd(t, b + 1) ELSE b
        ip == DigitsValue(t, a, b)
        fracIsZero == DigitsValue(t, b + 1, c) = 0
    IN  IF b = a \/ (hasFrac /\ c = b + 1) THEN ParseFail
        ELSE IF ~hasFrac \/ fracIsZero
            THEN ParseOk(JNum(IntegerOfDigits(t, a, b, neg)), c)
        ELSE ParseOk(JNum(NumFrac(IF neg THEN 0 - ip ELSE ip, neg)), c)

RECURSIVE ParseValue(_, _)
RECURSIVE ParseMembers(_, _, _)
RECURSIVE ParseElements(_, _, _)

\* The members of an object from position i, where a key is due.
ParseMembers(t, i, acc) ==
    LET j == SkipWhitespace(t, i) IN
    IF j > Len(t) \/ t[j] # 34 THEN ParseFail
    ELSE LET key == ParseStringBody(t, j + 1, <<>>) IN
        IF ~key.ok THEN ParseFail
        ELSE LET c == SkipWhitespace(t, key.i) IN
            IF c > Len(t) \/ t[c] # 58 THEN ParseFail
            ELSE LET val == ParseValue(t, c + 1) IN
                IF ~val.ok THEN ParseFail
                ELSE LET d == SkipWhitespace(t, val.i)
                         more == Append(acc, [k |-> key.v.s, v |-> val.v])
                     IN IF d > Len(t) THEN ParseFail
                        ELSE IF t[d] = 44 THEN ParseMembers(t, d + 1, more)
                        ELSE IF t[d] = 125 THEN ParseOk(JObj(more), d + 1)
                        ELSE ParseFail

\* The elements of an array from position i, where a value is due.
ParseElements(t, i, acc) ==
    LET val == ParseValue(t, i) IN
    IF ~val.ok THEN ParseFail
    ELSE LET d == SkipWhitespace(t, val.i)
             more == Append(acc, val.v)
         IN IF d > Len(t) THEN ParseFail
            ELSE IF t[d] = 44 THEN ParseElements(t, d + 1, more)
            ELSE IF t[d] = 93 THEN ParseOk(JArr(more), d + 1)
            ELSE ParseFail

\* One JSON value from position i.
ParseValue(t, i) ==
    LET j == SkipWhitespace(t, i) IN
    IF j > Len(t) THEN ParseFail
    ELSE IF t[j] = 123
        THEN LET e == SkipWhitespace(t, j + 1) IN
            IF e <= Len(t) /\ t[e] = 125 THEN ParseOk(JObj(<<>>), e + 1)
            ELSE ParseMembers(t, j + 1, <<>>)
    ELSE IF t[j] = 91
        THEN LET e == SkipWhitespace(t, j + 1) IN
            IF e <= Len(t) /\ t[e] = 93 THEN ParseOk(JArr(<<>>), e + 1)
            ELSE ParseElements(t, j + 1, <<>>)
    ELSE IF t[j] = 34 THEN ParseStringBody(t, j + 1, <<>>)
    ELSE IF t[j] = 45 \/ IsDigit(t[j]) THEN ParseNumber(t, j)
    ELSE IF HasWordAt(t, j, Txt(<<"t", "r", "u", "e">>)) THEN ParseOk(JBool(TRUE), j + 4)
    ELSE IF HasWordAt(t, j, Txt(<<"f", "a", "l", "s", "e">>)) THEN ParseOk(JBool(FALSE), j + 5)
    ELSE IF HasWordAt(t, j, Txt(<<"n", "u", "l", "l">>)) THEN ParseOk(JNull, j + 4)
    ELSE ParseFail

\* JSON.parse(t): ok is FALSE where JSON.parse throws a SyntaxError.
JsonParse(t) ==
    LET r == ParseValue(t, 1) IN
    IF r.ok /\ SkipWhitespace(t, r.i) = Len(t) + 1 THEN r ELSE ParseFail

RECURSIVE LastMember(_, _, _)
\* The value of the last of the members m[1..i] with key k (a later
\* duplicate key overwrites an earlier one), or undefined.
LastMember(m, i, k) ==
    IF i = 0 THEN JUndefined
    ELSE IF m[i].k = k THEN m[i].v
    ELSE LastMember(m, i - 1, k)

\* v.k for a parsed value v other than null and a key k that no prototype
\* defines: undefined unless v is an object that has the member.
GetProperty(v, k) ==
    IF v.t = "object" THEN LastMember(v.m, Len(v.m), k) ELSE JUndefined

---------------------------------------------------------------------------
(* JSON.stringify(value), without indentation.                             *)

\* The texts x[1], ..., x[n] with a comma between neighbours.
JoinWithCommas(x) ==
    Flatten([i \in 1..Len(x) |-> IF i = 1 THEN x[i] ELSE <<44>> \o x[i]])

\* JSON.stringify of a number: NaN is written null.  Only integer-valued
\* numbers are ever written by the bridge.
StringifyNumber(n) ==
    IF n.k = "nan" THEN Txt(<<"n", "u", "l", "l">>)
    ELSE IF n.k = "big" THEN (IF n.neg THEN <<45>> ELSE <<>>) \o n.digits
    ELSE NumberText(n.v)

RECURSIVE Stringify(_)
\* JSON.stringify(v): an object member whose value is undefined is left out,
\* an undefined array element is written null.
Stringify(v) ==
    IF v.t = "null" \/ v.t = "undefined" THEN Txt(<<"n", "u", "l", "l">>)
    ELSE IF v.t = "boolean" THEN (IF v.b THEN Txt(<<"t", "r", "u", "e">>) ELSE Txt(<<"f", "a", "l", "s", "e">>))
    ELSE IF v.t = "number" THEN StringifyNumber(v.n)
    ELSE IF v.t = "string" THEN QuoteJSON(v.s)
    ELSE IF v.t = "array"
        THEN <<91>>
             \o JoinWithCommas([i \in 1..Len(v.a) |-> Stringify(v.a[i])])
             \o <<93>>
    ELSE LET kept == SelectSeq(v.m, LAMBDA e : e.v.t # "undefined") IN
        <<123>>
        \o JoinWithCommas([i \in 1..Len(kept) |->
                QuoteJSON(kept[i].k) \o <<58>> \o Stringify(kept[i].v)])
        \o <<125>>

---------------------------------------------------------------------------
(* Number(v), as decodeCursor applies it to the parsed offset.  Strings are *)
(* read as signed decimal literals; hexadecimal, exponent and Infinity     *)
(* spellings are outside the strings the model draws.                      *)

RECURSIVE TrimEnd(_, _)
\* The position of the last character of s[1..i] that is not whitespace.
TrimEnd(s, i) ==
    IF i >= 1 /\ IsWhitespace(s[i]) THEN TrimEnd(s, i - 1) ELSE i

\* Number(s) for a string s.
StringToNumber(s) ==
    LET t == SubSeq(s, SkipWhitespace(s, 1), TrimEnd(s, Len(s))) IN
    IF t = <<>> THEN NumInt(0)
    ELSE LET neg == t[1] = 45
             b == IF t[1] = 45 \/ t[1] = 43 THEN 2 ELSE 1
             c == DigitsEnd(t, b)
             hasFrac == c <= Len(t) /\ t[c] = 46
             d == IF hasFrac THEN DigitsEnd(t, c + 1) ELSE c
             nDigits == (c - b) + (IF hasFrac THEN d - c - 1 ELSE 0)
             ip == DigitsValue(t, b, c)
         IN IF d # Len(t) + 1 \/ nDigits = 0 THEN NumNaN
            ELSE IF ~hasFrac \/ DigitsValue(t, c + 1, d) = 0
                THEN IntegerOfDigits(t, b, c, neg)
            ELSE NumFrac(IF neg THEN 0 - ip ELSE ip, neg)

RECURSIVE ToNumber(_)
\* Number(v): undefined is NaN, null is 0, a boolean 0 or 1, a string its
\* numeric reading, an object NaN, an array the number of its string form.
ToNumber(v) ==
    IF v.t = "undefined" THEN NumNaN
    ELSE IF v.t = "null" THEN NumInt(0)
    ELSE IF v.t = "boolean" THEN NumInt(IF v.b THEN 1 ELSE 0)
    ELSE IF v.t = "number" THEN v.n
    ELSE IF v.t = "string" THEN StringToNumber(v.s)
    ELSE IF v.t = "array"
        THEN IF Len(v.a) = 0 THEN NumInt(0)
             ELSE IF Len(v.a) > 1 \/ v.a[1].t = "boolean" THEN NumNaN
             ELSE ToNumber(v.a[1])
    ELSE NumNaN

---------------------------------------------------------------------------
(* Handle codec.                                                           *)

KeySessionId == Txt(<<"s", "e", "s", "s", "i", "o", "n", "_", "i", "d">>)
KeyMessageId == Txt(<<"m", "e", "s", "s", "a", "g", "e", "_", "i", "d">>)
KeySubmittedAtMs == Txt(<<"s", "u", "b", "m", "i", "t", "t", "e", "d", "_", "a", "t", "_", "m", "s">>)
KeyOffset == Txt(<<"o", "f", "f", "s", "e", "t">>)

\* An AsyncRequestPayload as the object JSON.stringify is given; the
\* submitted_at_ms the bridge encodes is an integer (Date.now()).  The
\* number fields of a payload are numbers as NumInt and NumBig build them.
AsyncRequestPayload(payload) ==
    JObj(<<[k |-> KeySessionId, v |-> JStr(payload.session_id)],
           [k |-> KeyMessageId, v |-> JStr(payload.message_id)],
           [k |-> KeySubmittedAtMs, v |-> JNum(payload.submitted_at_ms)]>>)

encodeAsyncRequestId(payload) ==
    Base64UrlEncode(Utf8Encode(Stringify(AsyncRequestPayload(payload))))

InvalidAsyncRequestId ==
    [ok |-> FALSE,
     error |-> Txt(<<"I", "n", "v", "a", "l", "i", "d", " ", "a", "s", "y", "n", "c", "_", "r", "e", "q", "u", "e", "s", "t", "_", "i", "d", ".", " ", "E", "x", "p", "e", "c", "t", "e", "d", " ", "a", " ", "b", "a", "s", "e", "6", "4", "u", "r", "l", " ", "e", "n", "c", "o", "d", "e", "d", " ", "a", "s", "y", "n", "c", " ", "r", "e", "q", "u", "e", "s", "t", " ", "i", "d", ".">>)]

\* The three typeof tests of decodeAsyncRequestId on the parsed value.
AsyncRequestFieldsPresent(parsed) ==
    /\ TypeOf(GetProperty(parsed, KeySessionId)) = "string"
    /\ TypeOf(GetProperty(parsed, KeyMessageId)) = "string"
    /\ TypeOf(GetProperty(parsed, KeySubmittedAtMs)) = "number"

\* A decoder that takes 0 for a submitted_at_ms that is no number.
decodeAsyncRequestIdDefaulting(asyncRequestId) ==
    LET parsed == JsonParse(Utf8Decode(Base64UrlDecode(asyncRequestId))) IN
    IF ~parsed.ok \/ parsed.v.t = "null" THEN InvalidAsyncRequestId
    ELSE IF \/ TypeOf(GetProperty(parsed.v, KeySessionId)) # "string"
            \/ TypeOf(GetProperty(parsed.v, KeyMessageId)) # "string"
        THEN InvalidAsyncRequestId
    ELSE [ok |-> TRUE,
          session_id |-> GetProperty(parsed.v, KeySessionId).s,
          message_id |-> GetProperty(parsed.v, KeyMessageId).s,
          submitted_at_ms |->
              IF TypeOf(GetProperty(parsed.v, KeySubmittedAtMs)) = "number"
                  THEN GetProperty(parsed.v, KeySubmittedAtMs).n
              ELSE NumInt(0)]

\* decodeAsyncRequestId: every throw inside the try (the SyntaxError of
\* JSON.parse, the TypeError of reading a property of null, "missing fields")
\* becomes the one invalid-handle error.
decodeAsyncRequestId(asyncRequestId) ==
    LET parsed == JsonParse(Utf8Decode(Base64UrlDecode(asyncRequestId))) IN
    IF ~parsed.ok \/ parsed.v.t = "null" THEN InvalidAsyncRequestId
    ELSE IF ~AsyncRequestFieldsPresent(parsed.v) THEN InvalidAsyncRequestId
    ELSE [ok |-> TRUE,
          session_id |-> GetProperty(parsed.v, KeySessionId).s,
          message_id |-> GetProperty(parsed.v, KeyMessageId).s,
          submitted_at_ms |-> GetProperty(parsed.v, KeySubmittedAtMs).n]

---------------------------------------------------------------------------
(* Cursor codec.  An optional string argument is [given, s].               *)

Absent == [given |-> FALSE, s |-> <<>>]
Given(s) == [given |-> TRUE, s |-> s]

\* A CursorPayload as the object JSON.stringify is given.
CursorPayload(payload) ==
    JObj(<<[k |-> KeyOffset, v |-> JNum(payload.offset)]>>)

encodeCursor(payload) ==
    Base64UrlEncode(Utf8Encode(Stringify(CursorPayload(payload))))

InvalidCursor ==
    [ok |-> FALSE, error |-> Txt(<<"I", "n", "v", "a", "l", "i", "d", " ", "c", "u", "r", "s", "o", "r", ".", " ", "E", "x", "p", "e", "c", "t", "e", "d", " ", "a", " ", "b", "a", "s", "e", "6", "4", "u", "r", "l", " ", "e", "n", "c", "o", "d", "e", "d", " ", "c", "u", "r", "s", "o", "r", ".">>)]

\* A test that takes only positive offsets.
OffsetAcceptedPositive(offset) ==
    NumberIsInteger(offset) /\ ~NumberIsNegative(offset) /\ offset # NumInt(0)

\* The test decodeCursor makes on Number(parsed.offset).
OffsetAccepted(offset) == NumberIsInteger(offset) /\ ~NumberIsNegative(offset)

\* decodeCursor: an absent or empty cursor is offset 0; otherwise the offset
\* is Number(parsed.offset), and it must be a non-negative integer.
decodeCursor(cursor) ==
    IF ~cursor.given \/ cursor.s = <<>> THEN [ok |-> TRUE, offset |-> NumInt(0)]
    ELSE LET parsed == JsonParse(Utf8Decode(Base64UrlDecode(cursor.s))) IN
        IF ~parsed.ok \/ parsed.v.t = "null" THEN InvalidCursor
        ELSE LET offset == ToNumber(GetProperty(parsed.v, KeyOffset)) IN
            IF ~OffsetAccepted(offset) THEN InvalidCursor
            ELSE [ok |-> TRUE, offset |-> offset]

---------------------------------------------------------------------------
(* Field projection (parseRequestedFields, pathExists, projectValue,       *)
(* projectMessage).  A field list is a sequence of strings, a path a       *)
(* sequence of keys.                                                       *)

DEFAULT_MESSAGE_FIELDS ==
    <<Txt(<<"i", "n", "f", "o", ".", "i", "d">>), Txt(<<"i", "n", "f", "o", ".", "r", "o", "l", "e">>), Txt(<<"i", "n", "f", "o", ".", "t", "i", "m", "e">>), Txt(<<"p", "a", "r", "t", "s", ".", "t", "y", "p", "e">>), Txt(<<"p", "a", "r", "t", "s", ".", "t", "e", "x", "t">>)>>

Star == Txt(<<"*">>)

\* Whether the string x is one of the elements of the sequence q.
Includes(q, x) == \E i \in 1..Len(q) : q[i] = x

\* s.trim()
Trim(s) == SubSeq(s, SkipWhitespace(s, 1), TrimEnd(s, Len(s)))

\* Array.from(new Set(q)): the first occurrence of each element, in order.
Unique(q) ==
    LET first == {i \in 1..Len(q) : \A j \in 1..(i - 1) : q[j] # q[i]}
        keep == SelectSeq([i \in 1..Len(q) |-> i], LAMBDA i : i \in first)
    IN  [n \in 1..Len(keep) |-> q[keep[n]]]

\* parseRequestedFields(fields) for fields undefined or an array of strings.
parseRequestedFields(fields) ==
    IF ~fields.given THEN DEFAULT_MESSAGE_FIELDS
    ELSE LET normalized ==
                 SelectSeq([i \in 1..Len(fields.list) |-> Trim(fields.list[i])],
                           LAMBDA item : item # <<>>)
         IN IF Len(normalized) = 0 THEN DEFAULT_MESSAGE_FIELDS
            ELSE IF Includes(normalized, Star) THEN <<Star>>
            ELSE Unique(normalized)

\* field.split(".").filter(Boolean): the non-empty pieces between the dots.
SplitPath(field) ==
    LET dots == {i \in 1..Len(field) : field[i] = 46}
        starts == {i \in 1..Len(field) :
                      field[i] # 46 /\ (i = 1 \/ (i - 1) \in dots)}
        order == SelectSeq([i \in 1..Len(field) |-> i], LAMBDA i : i \in starts)
        EndOf(a) == IF \E d \in dots : d > a
                    THEN (CHOOSE d \in dots : d > a /\ \A e \in dots : e > a => d <= e) - 1
                    ELSE Len(field)
    IN  [n \in 1..Len(order) |-> SubSeq(field, order[n], EndOf(order[n]))]

\* key in record
HasMember(record, key) == \E i \in 1..Len(record.m) : record.m[i].k = key

RECURSIVE pathExists(_, _)
pathExists(value, path) ==
    IF Len(path) = 0 THEN TRUE
    ELSE IF value.t = "array"
        THEN \E i \in 1..Len(value.a) : pathExists(value.a[i], path)
    ELSE IF value.t # "object" THEN FALSE
    ELSE IF ~HasMember(value, Head(path)) THEN FALSE
    ELSE pathExists(GetProperty(value, Head(path)), Tail(path))

\* The keys of the buckets of projectValue, in the order the Map gets them:
\* the distinct heads of the paths, by first occurrence.
BucketKeys(pathGroups) == Unique([i \in 1..Len(pathGroups) |-> Head(pathGroups[i])])

\* buckets.get(key): the rests of the paths that start with key, in order.
Bucket(pathGroups, key) ==
    LET mine == SelectSeq(pathGroups, LAMBDA path : Head(path) = key) IN
    [i \in 1..Len(mine) |-> Tail(mine[i])]

RECURSIVE projectValue(_, _)
\* projectValue: undefined stands for "nothing left of this value".
projectValue(value, pathGroups) ==
    IF \E i \in 1..Len(pathGroups) : Len(pathGroups[i]) = 0 THEN value
    ELSE IF value.t = "array"
        THEN JArr(SelectSeq([i \in 1..Len(value.a) |->
                                projectValue(value.a[i], pathGroups)],
                            LAMBDA entry : entry.t # "undefined"))
    ELSE IF value.t # "object" THEN JUndefined
    ELSE LET keys == BucketKeys(pathGroups)
             all == [i \in 1..Len(keys) |->
                        [k |-> keys[i],
                         v |-> IF HasMember(value, keys[i])
                               THEN projectValue(GetProperty(value, keys[i]),
                                                 Bucket(pathGroups, keys[i]))
                               ELSE JUndefined]]
             output == SelectSeq(all, LAMBDA e : e.v.t # "undefined")
         IN IF Len(output) > 0 THEN JObj(output) ELSE JUndefined

\* projectMessage with every path cut after its first key.
projectMessageFirstLevel(message, fields) ==
    IF Includes(fields, Star) THEN [projected |-> message, missingFields |-> <<>>]
    ELSE LET paths == [i \in 1..Len(fields) |-> SubSeq(SplitPath(fields[i]), 1, 1)]
             found == projectValue(message, paths)
         IN [projected |-> IF found.t \in {"undefined", "null"} THEN JObj(<<>>)
                           ELSE found,
             missingFields |->
                 SelectSeq(fields, LAMBDA field : ~pathExists(message, SplitPath(field)))]

projectMessage(message, fields) ==
    IF Includes(fields, Star) THEN [projected |-> message, missingFields |-> <<>>]
    ELSE LET paths == [i \in 1..Len(fields) |-> SplitPath(fields[i])]
             found == projectValue(message, paths)
         IN [projected |-> IF found.t \in {"undefined", "null"} THEN JObj(<<>>)
                           ELSE found,
             missingFields |->
                 SelectSeq(fields, LAMBDA field : ~pathExists(message, SplitPath(field)))]

---------------------------------------------------------------------------
(* The remote agent, as the bridge sees it through HTTP.                   *)

\* A message {info: {id, role, parentID?}, parts: [{type: "text", text}]};
\* parentID is left out when it is the empty string.
Message(id, role, parentID, text) ==
    JObj(<<[k |-> Txt(<<"i", "n", "f", "o">>),
            v |-> JObj(<<[k |-> Txt(<<"i", "d">>), v |-> JStr(id)],
                         [k |-> Txt(<<"r", "o", "l", "e">>), v |-> JStr(role)]>>
                       \o IF parentID = <<>> THEN <<>>
                          ELSE <<[k |-> Txt(<<"p", "a", "r", "e", "n", "t", "I", "D">>), v |-> JStr(parentID)]>>)],
           [k |-> Txt(<<"p", "a", "r", "t", "s">>),
            v |-> JArr(<<JObj(<<[k |-> Txt(<<"t", "y", "p", "e">>), v |-> JStr(Txt(<<"t", "e", "x", "t">>))],
                                [k |-> Txt(<<"t", "e", "x", "t">>), v |-> JStr(text)]>>)>>)]>>)

\* GET /session/{id}/message?limit=: the remote keeps `limit` messages of the
\* history, the oldest ones or the most recent ones according to its mode,
\* in history order.
ListMessages(history, limit, mode) ==
    IF limit >= Len(history) THEN history
    ELSE IF mode = "oldest" THEN SubSeq(history, 1, limit)
    ELSE SubSeq(history, Len(history) - limit + 1, Len(history))

\* A fetch whose error does not say the status.
fetchSessionMessagesBareError(rem, sessionId, limit) ==
    LET request == [method |-> "GET", path |-> "/session/{id}/message",
                    session |-> sessionId, limit |-> limit]
    IN  IF rem.status = 200
        THEN [ok |-> TRUE, request |-> request,
              messages |-> ListMessages(rem.history, limit, rem.mode)]
        ELSE [ok |-> FALSE, request |-> request, messages |-> <<>>,
              error |-> Txt(<<"F", "a", "i", "l", "e", "d", " ", "t", "o", " ", "g", "e", "t", " ", "m", "e", "s", "s", "a", "g", "e", "s">>)]

\* fetchSessionMessages: the request it issues and what it returns; a
\* response that is not 2xx makes it throw "Failed to get messages: <status>".
fetchSessionMessages(rem, sessionId, limit) ==
    LET request == [method |-> "GET", path |-> "/session/{id}/message",
                    session |-> sessionId, limit |-> limit]
    IN  IF rem.status = 200
        THEN [ok |-> TRUE, request |-> request,
              messages |-> ListMessages(rem.history, limit, rem.mode)]
        ELSE [ok |-> FALSE, request |-> request, messages |-> <<>>,
              error |-> Txt(<<"F", "a", "i", "l", "e", "d", " ", "t", "o", " ", "g", "e", "t", " ", "m", "e", "s", "s", "a", "g", "e", "s", ":", " ">>) \o NumberText(rem.status)]

---------------------------------------------------------------------------
(* opencode_get_messages.  An optional number argument is [given, n].      *)

DEFAULT_MESSAGE_LIMIT == 50
MAX_MESSAGE_LIMIT == 200
DEFAULT_MAX_OUTPUT_TOKENS == 5000
MAX_OUTPUT_TOKENS == 20000

NoNumber == [given |-> FALSE, n |-> 0]
Number(n) == [given |-> TRUE, n |-> n]

Min(a, b) == IF a <= b THEN a ELSE b
Max(a, b) == IF a >= b THEN a ELSE b

\* Math.ceil(value.length / 4)
estimateTokensFromString(value) == (Len(value) + 3) \div 4

estimateTokensFromObject(value) == estimateTokensFromString(Stringify(value))

\* A page size that has no upper end.
PageSizeUncapped(limit) ==
    Max(IF limit.given THEN limit.n ELSE DEFAULT_MESSAGE_LIMIT, 1)

\* The page size and the token budget the handler works with.
PageSize(limit) ==
    Min(Max(IF limit.given THEN limit.n ELSE DEFAULT_MESSAGE_LIMIT, 1),
        MAX_MESSAGE_LIMIT)

MaxOutputTokens(max_output_tokens) ==
    Min(Max(IF max_output_tokens.given THEN max_output_tokens.n
            ELSE DEFAULT_MAX_OUTPUT_TOKENS, 1),
        MAX_OUTPUT_TOKENS)

\* A slice that starts one message after the cursor offset.
SliceAfterOffset(messages, from, to) ==
    SubSeq(messages, Min(from + 1, Len(messages)) + 1, Min(to + 1, Len(messages)))

\* messages.slice(from, to), with 0-based bounds.
Slice(messages, from, to) ==
    SubSeq(messages, Min(from, Len(messages)) + 1, Min(to, Len(messages)))

NoticeText ==
    Txt(<<"P", "a", "y", "l", "o", "a", "d", " ", "s", "t", "i", "l", "l", " ", "e", "x", "c", "e", "e", "d", "s", " ", "t", "o", "k", "e", "n", " ", "b", "u", "d", "g", "e", "t", " ", "w", "i", "t", "h", " ", "c", "u", "r", "r", "e", "n", "t", " ", "f", "i", "e", "l", "d", " ", "p", "r", "o", "j", "e", "c", "t", "i", "o", "n", ".", " ", "R", "e", "d", "u", "c", "e", " ", "f", "i", "e", "l", "d", "s", " ", "o", "r", " ", "i", "n", "c", "r", "e", "a", "s", "e", " ", "m", "a", "x", "_", "o", "u", "t", "p", "u", "t", "_", "t", "o", "k", "e", "n", "s", ".">>)

OptionalString(x) == IF x.given THEN JStr(x.s) ELSE JNull

StringArray(q) == JArr([i \in 1..Len(q) |-> JStr(q[i])])

\* The payload object, member by member in the order the handler writes
\* them; notice is the member Object.assign adds last.
PayloadJson(payload) ==
    JObj(<<[k |-> Txt(<<"s", "e", "s", "s", "i", "o", "n", "_", "i", "d">>), v |-> JStr(payload.session_id)],
           [k |-> Txt(<<"i", "t", "e", "m", "s">>), v |-> JArr(payload.items)],
           [k |-> Txt(<<"p", "a", "g", "e">>),
            v |-> JObj(<<[k |-> Txt(<<"l", "i", "m", "i", "t">>), v |-> JNum(NumInt(payload.page.limit))],
                         [k |-> Txt(<<"c", "u", "r", "s", "o", "r">>), v |-> OptionalString(payload.page.cursor)],
                         [k |-> Txt(<<"n", "e", "x", "t", "_", "c", "u", "r", "s", "o", "r">>),
                          v |-> OptionalString(payload.page.next_cursor)],
                         [k |-> Txt(<<"h", "a", "s", "_", "m", "o", "r", "e">>), v |-> JBool(payload.page.has_more)],
                         [k |-> Txt(<<"o", "f", "f", "s", "e", "t">>), v |-> JNum(NumInt(payload.page.offset))],
                         [k |-> Txt(<<"r", "e", "t", "u", "r", "n", "e", "d">>),
                          v |-> JNum(NumInt(payload.page.returned))]>>)],
           [k |-> Txt(<<"b", "u", "d", "g", "e", "t">>),
            v |-> JObj(<<[k |-> Txt(<<"m", "a", "x", "_", "o", "u", "t", "p", "u", "t", "_", "t", "o", "k", "e", "n", "s">>),
                          v |-> JNum(NumInt(payload.budget.max_output_tokens))],
                         [k |-> Txt(<<"e", "s", "t", "i", "m", "a", "t", "e", "d", "_", "o", "u", "t", "p", "u", "t", "_", "t", "o", "k", "e", "n", "s">>),
                          v |-> JNum(NumInt(payload.budget.estimated_output_tokens))],
                         [k |-> Txt(<<"t", "r", "u", "n", "c", "a", "t", "e", "d">>), v |-> JBool(payload.budget.truncated)],
                         [k |-> Txt(<<"f", "i", "n", "i", "s", "h", "_", "r", "e", "a", "s", "o", "n">>),
                          v |-> JStr(IF payload.budget.finish_reason = "length"
                                     THEN Txt(<<"l", "e", "n", "g", "t", "h">>) ELSE Txt(<<"s", "t", "o", "p">>))]>>)],
           [k |-> Txt(<<"p", "r", "o", "j", "e", "c", "t", "i", "o", "n">>),
            v |-> JObj(<<[k |-> Txt(<<"r", "e", "q", "u", "e", "s", "t", "e", "d", "_", "f", "i", "e", "l", "d", "s">>),
                          v |-> StringArray(payload.projection.requested_fields)],
                         [k |-> Txt(<<"m", "i", "s", "s", "i", "n", "g", "_", "f", "i", "e", "l", "d", "s">>),
                          v |-> StringArray(payload.projection.missing_fields)]>>)]>>
         \o IF payload.notice.given
            THEN <<[k |-> Txt(<<"n", "o", "t", "i", "c", "e">>), v |-> JStr(payload.notice.s)]>>
            ELSE <<>>)

RECURSIVE TakeWithinBudget(_, _, _, _)
\* The loop over projectedPage from item i on, responseItems being the items
\* kept so far: an item is kept while the list with it is within the budget,
\* and the first item is kept whatever its size.
TakeWithinBudget(projectedPage, i, responseItems, maxOutputTokens) ==
    IF i > Len(projectedPage)
        THEN [responseItems |-> responseItems, truncatedByBudget |-> FALSE]
    ELSE LET candidate == Append(responseItems, projectedPage[i])
             estimatedTokens == estimateTokensFromString(Stringify(JArr(candidate)))
         IN IF estimatedTokens <= maxOutputTokens \/ Len(responseItems) = 0
            THEN TakeWithinBudget(projectedPage, i + 1, candidate, maxOutputTokens)
            ELSE [responseItems |-> responseItems, truncatedByBudget |-> TRUE]

\* A payload whose continuation cursor repeats the input offset.
AssemblePayloadSameOffset(args, cursorOffset, kept, hasMore, missingFields) ==
    [session_id |-> args.session_id,
     items |-> kept.responseItems,
     page |-> [limit |-> PageSize(args.limit),
               cursor |-> args.cursor,
               next_cursor |->
                   IF hasMore
                   THEN Given(encodeCursor([offset |-> NumInt(cursorOffset)]))
                   ELSE Absent,
               has_more |-> hasMore,
               offset |-> cursorOffset,
               returned |-> Len(kept.responseItems)],
     budget |-> [max_output_tokens |-> MaxOutputTokens(args.max_output_tokens),
                 estimated_output_tokens |->
                     estimateTokensFromString(Stringify(JArr(kept.responseItems))),
                 truncated |-> kept.truncatedByBudget,
                 finish_reason |-> IF kept.truncatedByBudget THEN "length" ELSE "stop"],
     projection |-> [requested_fields |-> parseRequestedFields(args.fields),
                     missing_fields |-> missingFields],
     notice |-> Absent]

\* The payload as first assembled from what the budget loop kept.
AssemblePayload(args, cursorOffset, kept, hasMore, missingFields) ==
    [session_id |-> args.session_id,
     items |-> kept.responseItems,
     page |-> [limit |-> PageSize(args.limit),
               cursor |-> args.cursor,
               next_cursor |->
                   IF hasMore
                   THEN Given(encodeCursor(
                            [offset |-> NumInt(cursorOffset + Len(kept.responseItems))]))
                   ELSE Absent,
               has_more |-> hasMore,
               offset |-> cursorOffset,
               returned |-> Len(kept.responseItems)],
     budget |-> [max_output_tokens |-> MaxOutputTokens(args.max_output_tokens),
                 estimated_output_tokens |->
                     estimateTokensFromString(Stringify(JArr(kept.responseItems))),
                 truncated |-> kept.truncatedByBudget,
                 finish_reason |-> IF kept.truncatedByBudget THEN "length" ELSE "stop"],
     projection |-> [requested_fields |-> parseRequestedFields(args.fields),
                     missing_fields |-> missingFields],
     notice |-> Absent]

\* A turn of the while loop whose cursor counts the dropped item as
\* delivered.
PopLastItemSkipping(payload, cursorOffset) ==
    LET items == SubSeq(payload.items, 1, Len(payload.items) - 1) IN
    [payload EXCEPT
        !.items = items,
        !.page.returned = Len(items),
        !.page.next_cursor = Given(encodeCursor([offset |-> NumInt(cursorOffset + Len(payload.items))])),
        !.page.has_more = TRUE,
        !.budget.truncated = TRUE,
        !.budget.finish_reason = "length",
        !.budget.estimated_output_tokens = estimateTokensFromObject(JArr(items))]

\* A turn of the while loop that leaves has_more and the cursor as the
\* source gave them.
PopLastItemAsSourceSaid(payload, cursorOffset) ==
    LET items == SubSeq(payload.items, 1, Len(payload.items) - 1) IN
    [payload EXCEPT
        !.items = items,
        !.page.returned = Len(items),
        !.budget.truncated = TRUE,
        !.budget.finish_reason = "length",
        !.budget.estimated_output_tokens = estimateTokensFromObject(JArr(items))]

\* One turn of the while loop: the last item is dropped and the page and
\* budget members are recomputed.
PopLastItem(payload, cursorOffset) ==
    LET items == SubSeq(payload.items, 1, Len(payload.items) - 1) IN
    [payload EXCEPT
        !.items = items,
        !.page.returned = Len(items),
        !.page.next_cursor = Given(encodeCursor([offset |-> NumInt(cursorOffset + Len(items))])),
        !.page.has_more = TRUE,
        !.budget.truncated = TRUE,
        !.budget.finish_reason = "length",
        !.budget.estimated_output_tokens = estimateTokensFromObject(JArr(items))]

RECURSIVE ShrinkToBudget(_, _)
\* while (estimateTokensFromObject(payload) > maxOutputTokens &&
\*        payload.items.length > 0) { ... }
ShrinkToBudget(payload, cursorOffset) ==
    IF /\ estimateTokensFromObject(PayloadJson(payload))
              > payload.budget.max_output_tokens
       /\ Len(payload.items) > 0
    THEN ShrinkToBudget(PopLastItem(payload, cursorOffset), cursorOffset)
    ELSE payload

\* A last test that empties every truncated payload.
EmptyIfTruncated(payload, cursorOffset) ==
    IF payload.budget.truncated
    THEN [payload EXCEPT
            !.items = <<>>,
            !.page.returned = 0,
            !.page.has_more = TRUE,
            !.page.next_cursor = Given(encodeCursor([offset |-> NumInt(cursorOffset)])),
            !.budget.truncated = TRUE,
            !.budget.finish_reason = "length",
            !.budget.estimated_output_tokens = estimateTokensFromObject(JArr(<<>>)),
            !.notice = Given(NoticeText)]
    ELSE payload

\* The last test of the handler: a payload still over the budget is emptied,
\* keeps the input offset as its cursor and gets the notice.
EmptyIfOverBudget(payload, cursorOffset) ==
    IF estimateTokensFromObject(PayloadJson(payload))
           > payload.budget.max_output_tokens
    THEN [payload EXCEPT
            !.items = <<>>,
            !.page.returned = 0,
            !.page.has_more = TRUE,
            !.page.next_cursor = Given(encodeCursor([offset |-> NumInt(cursorOffset)])),
            !.budget.truncated = TRUE,
            !.budget.finish_reason = "length",
            !.budget.estimated_output_tokens = estimateTokensFromObject(JArr(<<>>)),
            !.notice = Given(NoticeText)]
    ELSE payload

\* Array.from of the Set the handler adds every page message's missing
\* fields to.
MissingFields(rawPage, requestedFields) ==
    Unique(Flatten([i \in 1..Len(rawPage) |->
                       projectMessage(rawPage[i], requestedFields).missingFields]))

\* A page whose source is taken to have more as soon as the window reaches
\* the end of the slice.
BuildPageMoreAtEnd(args, cursorOffset, messages) ==
    LET pageSize == PageSize(args.limit)
        requestedFields == parseRequestedFields(args.fields)
        maxOutputTokens == MaxOutputTokens(args.max_output_tokens)
        rawPage == Slice(messages, cursorOffset, cursorOffset + pageSize)
        hasMoreFromSource == Len(messages) >= cursorOffset + Len(rawPage)
        projectedPage == [i \in 1..Len(rawPage) |->
                             projectMessage(rawPage[i], requestedFields).projected]
        kept == TakeWithinBudget(projectedPage, 1, <<>>, maxOutputTokens)
        nextOffset == cursorOffset + Len(kept.responseItems)
        hasMore == nextOffset < cursorOffset + Len(projectedPage) \/ hasMoreFromSource
        payload == AssemblePayload(args, cursorOffset, kept, hasMore,
                                   MissingFields(rawPage, requestedFields))
    IN  EmptyIfOverBudget(ShrinkToBudget(payload, cursorOffset), cursorOffset)

\* A page that leaves out the messages of which the projection kept
\* nothing.
BuildPageWithoutEmptyItems(args, cursorOffset, messages) ==
    LET pageSize == PageSize(args.limit)
        requestedFields == parseRequestedFields(args.fields)
        maxOutputTokens == MaxOutputTokens(args.max_output_tokens)
        rawPage == Slice(messages, cursorOffset, cursorOffset + pageSize)
        hasMoreFromSource == Len(messages) > cursorOffset + Len(rawPage)
        projectedPage ==
            SelectSeq([i \in 1..Len(rawPage) |->
                          projectMessage(rawPage[i], requestedFields).projected],
                      LAMBDA item : item # JObj(<<>>))
        kept == TakeWithinBudget(projectedPage, 1, <<>>, maxOutputTokens)
        nextOffset == cursorOffset + Len(kept.responseItems)
        hasMore == nextOffset < cursorOffset + Len(projectedPage) \/ hasMoreFromSource
        payload == AssemblePayload(args, cursorOffset, kept, hasMore,
                                   MissingFields(rawPage, requestedFields))
    IN  EmptyIfOverBudget(ShrinkToBudget(payload, cursorOffset), cursorOffset)

\* The page of a successful fetch: slice, projection, the budget loop and
\* the two envelope tests.
BuildPage(args, cursorOffset, messages) ==
    LET pageSize == PageSize(args.limit)
        requestedFields == parseRequestedFields(args.fields)
        maxOutputTokens == MaxOutputTokens(args.max_output_tokens)
        rawPage == Slice(messages, cursorOffset, cursorOffset + pageSize)
        hasMoreFromSource == Len(messages) > cursorOffset + Len(rawPage)
        projectedPage == [i \in 1..Len(rawPage) |->
                             projectMessage(rawPage[i], requestedFields).projected]
        kept == TakeWithinBudget(projectedPage, 1, <<>>, maxOutputTokens)
        nextOffset == cursorOffset + Len(kept.responseItems)
        hasMore == nextOffset < cursorOffset + Len(projectedPage) \/ hasMoreFromSource
        payload == AssemblePayload(args, cursorOffset, kept, hasMore,
                                   MissingFields(rawPage, requestedFields))
    IN  EmptyIfOverBudget(ShrinkToBudget(payload, cursorOffset), cursorOffset)

\* The handler of opencode_get_messages with the catch of the tool-call
\* handler around it: the result, and the remote requests issued on the way.
opencode_get_messages(args, rem) ==
    LET cursorData == decodeCursor(args.cursor) IN
    IF ~cursorData.ok
        THEN [isError |-> TRUE, error |-> cursorData.error, requests |-> <<>>]
    ELSE LET fetchLimit == cursorData.offset.v + PageSize(args.limit) + 1
             fetched == fetchSessionMessages(rem, args.session_id, fetchLimit)
         IN IF ~fetched.ok
            THEN [isError |-> TRUE, error |-> fetched.error,
                  requests |-> <<fetched.request>>]
            ELSE [isError |-> FALSE,
                  payload |-> BuildPage(args, cursorData.offset.v, fetched.messages),
                  requests |-> <<fetched.request>>]

---------------------------------------------------------------------------
(* State.                                                                  *)

VARIABLES
    remote,   \* the remote agent: HTTP status it answers with, message
              \* history of the session, meaning of its limit parameter
    chain,    \* a caller chaining opencode_get_messages calls by next_cursor
    codec,    \* a handle or cursor on its way through encode and decode
    call,     \* the tool call the bridge is serving, and how far it has got
    requests, \* the requests that call has sent to the remote agent so far
    now       \* Date.now(), in milliseconds since the call began

vars == <<remote, chain, codec, call, requests, now>>

NoRemote == [status |-> 200, history |-> <<>>, mode |-> "oldest"]
NoChain == [phase |-> "none"]
NoCodec == [phase |-> "none"]
NoCall == [tool |-> "none", pc |-> "idle"]

---------------------------------------------------------------------------
(* The codecs on drawn inputs.                                             *)

MaxIdLen == 2

\* The characters ids are drawn from: a letter, the quote, the backslash, a
\* two-byte character, and the two halves of a surrogate pair (which may
\* stand alone).
IdChars == {97, 34, 92, 233, 55357, 56832}

RECURSIVE StringsUpTo(_)
\* The strings over IdChars of length at most n.
StringsUpTo(n) ==
    IF n = 0 THEN {<<>>}
    ELSE LET shorter == StringsUpTo(n - 1) IN
        shorter \cup {Append(s, c) : s \in shorter, c \in IdChars}

SessionIds == {Txt(<<"s", "e", "s", "_", "1">>), <<>>, <<34, 10, 92>>, <<56832, 8364, 55357>>}

MessageIds == StringsUpTo(MaxIdLen) \cup {Txt(<<"m", "s", "g", "_", "a", "s", "y", "n", "c", "_", "1", "0", "0", "0", "_", "a", "b", "c">>)}

Timestamps ==
    {NumInt(0), NumInt(1000), NumBig(Txt(<<"1", "7", "0", "0", "0", "0", "0", "0", "0", "0", "0", "0", "0">>), FALSE),
     NumBig(Txt(<<"9", "0", "0", "7", "1", "9", "9", "2", "5", "4", "7", "4", "0", "9", "9", "1">>), FALSE)}

Offsets ==
    {NumInt(0), NumInt(1), NumInt(9), NumInt(10), NumInt(100), NumInt(65536),
     NumInt(999999999), NumBig(Txt(<<"1", "0", "0", "0", "0", "0", "0", "0", "0", "0">>), FALSE),
     NumBig(Txt(<<"2", "1", "4", "7", "4", "8", "3", "6", "4", "7">>), FALSE), NumBig(Txt(<<"2", "1", "4", "7", "4", "8", "3", "6", "4", "8">>), FALSE),
     NumBig(Txt(<<"4", "2", "9", "4", "9", "6", "7", "2", "9", "6">>), FALSE), NumBig(Txt(<<"9", "0", "0", "7", "1", "9", "9", "2", "5", "4", "7", "4", "0", "9", "9", "1">>), FALSE)}

\* How a drawn payload spells one member: as it should be, not at all, or
\* with a value of another type.
StringShapes == {"string", "missing", "null", "number", "boolean", "array", "object"}
NumberShapes == {"number", "missing", "null", "string", "boolean", "array", "object"}

\* The members (none or one) that spell key k in shape s; good is the value
\* of the right type, other a value of the other primitive type.
ShapedMember(k, s, good, other) ==
    IF s = "missing" THEN <<>>
    ELSE <<[k |-> k,
            v |-> IF s \in {"string", "number"}
                      THEN (IF s = good.t THEN good ELSE other)
                  ELSE IF s = "null" THEN JNull
                  ELSE IF s = "boolean" THEN JBool(TRUE)
                  ELSE IF s = "array" THEN JArr(<<good>>)
                  ELSE JObj(<<[k |-> k, v |-> good]>>)]>>

\* A handle payload whose three members have the given shapes.
ShapedHandle(shape) ==
    JObj(ShapedMember(KeySessionId, shape.session_id, JStr(Txt(<<"s", "e", "s", "_", "1">>)), JNum(NumInt(5)))
         \o ShapedMember(KeyMessageId, shape.message_id, JStr(Txt(<<"m", "1">>)), JNum(NumInt(6)))
         \o ShapedMember(KeySubmittedAtMs, shape.submitted_at_ms,
                         JNum(NumInt(1000)), JStr(Txt(<<"1", "0", "0", "0">>))))

HandleShapes ==
    [session_id : StringShapes, message_id : StringShapes,
     submitted_at_ms : NumberShapes]

\* Texts that are no JSON object: other JSON values, cut or damaged JSON,
\* bytes that are no text at all.
NonObjectTexts ==
    <<<<>>,
      Txt(<<"n", "u", "l", "l">>),
      Txt(<<"7">>),
      Txt(<<"\"", "s", "e", "s", "_", "1", "\"">>),
      Txt(<<"[", "]">>),
      Txt(<<"[", "\"", "s", "e", "s", "_", "1", "\"", ",", "\"", "m", "1", "\"", ",", "1", "0", "0", "0", "]">>),
      Txt(<<"{", "\"", "s", "e", "s", "s", "i", "o", "n", "_", "i", "d", "\"", ":", "\"", "s", "e", "s", "_", "1", "\"", ",", "\"", "m", "e", "s", "s", "a", "g", "e", "_", "i", "d", "\"", ":", "\"", "m", "1", "\"", ",", "\"", "s", "u", "b", "m", "i", "t", "t", "e", "d", "_", "a", "t", "_", "m", "s", "\"", ":", "1", "0", "0", "0">>),
      Txt(<<"{", "\"", "s", "e", "s", "s", "i", "o", "n", "_", "i", "d", "\"", ":", "\"", "s", "e", "s", "_", "1", "\"", ",", "\"", "m", "e", "s", "s", "a", "g", "e", "_", "i", "d", "\"", ":", "\"", "m", "1", "\"", ",", "\"", "s", "u", "b", "m", "i", "t", "t", "e", "d", "_", "a", "t", "_", "m", "s", "\"", ":", "}">>),
      Txt(<<"{", "\"", "s", "e", "s", "s", "i", "o", "n", "_", "i", "d", "\"", ":", "\"", "s", "e", "s", "_", "1", "\"", " ", "\"", "m", "e", "s", "s", "a", "g", "e", "_", "i", "d", "\"", ":", "\"", "m", "1", "\"", ",", "\"", "s", "u", "b", "m", "i", "t", "t", "e", "d", "_", "a", "t", "_", "m", "s", "\"", ":", "1", "0", "0", "0", "}">>),
      Txt(<<"{", "s", "e", "s", "s", "i", "o", "n", "_", "i", "d", ":", "\"", "s", "e", "s", "_", "1", "\"", ",", "m", "e", "s", "s", "a", "g", "e", "_", "i", "d", ":", "\"", "m", "1", "\"", ",", "s", "u", "b", "m", "i", "t", "t", "e", "d", "_", "a", "t", "_", "m", "s", ":", "1", "0", "0", "0", "}">>),
      Txt(<<"{", "\"", "o", "f", "f", "s", "e", "t", "\"", ":", "3">>),
      Txt(<<"{", "\"", "o", "f", "f", "s", "e", "t", "\"", ":", "}">>),
      Txt(<<"{", "\"", "o", "f", "f", "s", "e", "t", "\"", ":", "3", "}", "}">>),
      Txt(<<"o", "f", "f", "s", "e", "t", "=", "3">>),
      <<255, 254, 123, 125>>>>

\* The token that carries text t.
TokenOf(t) == Base64UrlEncode(Utf8Encode(t))

\* Cursor payload texts, with what decodeCursor should make of each: the
\* offset, or -1 for "invalid cursor".
CursorTexts ==
    <<[text |-> Txt(<<"{", "\"", "o", "f", "f", "s", "e", "t", "\"", ":", "3", "}">>), sound |-> TRUE],
      [text |-> Txt(<<"{", "\"", "o", "f", "f", "s", "e", "t", "\"", ":", "0", "}">>), sound |-> TRUE],
      [text |-> Txt(<<"{", "\"", "o", "f", "f", "s", "e", "t", "\"", ":", "3", ",", "\"", "e", "x", "t", "r", "a", "\"", ":", "t", "r", "u", "e", "}">>), sound |-> TRUE],
      [text |-> Txt(<<"{", " ", "\"", "o", "f", "f", "s", "e", "t", "\"", " ", ":", " ", "1", "2", " ", "}">>), sound |-> TRUE],
      [text |-> Txt(<<"{", "}">>), sound |-> FALSE],
      [text |-> Txt(<<"{", "\"", "O", "f", "f", "s", "e", "t", "\"", ":", "3", "}">>), sound |-> FALSE],
      [text |-> Txt(<<"{", "\"", "o", "f", "f", "s", "e", "t", "\"", ":", "n", "u", "l", "l", "}">>), sound |-> FALSE],
      [text |-> Txt(<<"{", "\"", "o", "f", "f", "s", "e", "t", "\"", ":", "t", "r", "u", "e", "}">>), sound |-> FALSE],
      [text |-> Txt(<<"{", "\"", "o", "f", "f", "s", "e", "t", "\"", ":", "f", "a", "l", "s", "e", "}">>), sound |-> FALSE],
      [text |-> Txt(<<"{", "\"", "o", "f", "f", "s", "e", "t", "\"", ":", "\"", "5", "\"", "}">>), sound |-> FALSE],
      [text |-> Txt(<<"{", "\"", "o", "f", "f", "s", "e", "t", "\"", ":", "\"", "\"", "}">>), sound |-> FALSE],
      [text |-> Txt(<<"{", "\"", "o", "f", "f", "s", "e", "t", "\"", ":", "\"", "a", "b", "c", "\"", "}">>), sound |-> FALSE],
      [text |-> Txt(<<"{", "\"", "o", "f", "f", "s", "e", "t", "\"", ":", "[", "]", "}">>), sound |-> FALSE],
      [text |-> Txt(<<"{", "\"", "o", "f", "f", "s", "e", "t", "\"", ":", "[", "7", "]", "}">>), sound |-> FALSE],
      [text |-> Txt(<<"{", "\"", "o", "f", "f", "s", "e", "t", "\"", ":", "{", "}", "}">>), sound |-> FALSE],
      [text |-> Txt(<<"{", "\"", "o", "f", "f", "s", "e", "t", "\"", ":", "{", "\"", "o", "f", "f", "s", "e", "t", "\"", ":", "3", "}", "}">>), sound |-> FALSE],
      [text |-> Txt(<<"{", "\"", "o", "f", "f", "s", "e", "t", "\"", ":", "-", "1", "}">>), sound |-> FALSE],
      [text |-> Txt(<<"{", "\"", "o", "f", "f", "s", "e", "t", "\"", ":", "-", "7", "}">>), sound |-> FALSE],
      [text |-> Txt(<<"{", "\"", "o", "f", "f", "s", "e", "t", "\"", ":", "1", ".", "5", "}">>), sound |-> FALSE],
      [text |-> Txt(<<"{", "\"", "o", "f", "f", "s", "e", "t", "\"", ":", "0", ".", "2", "5", "}">>), sound |-> FALSE],
      [text |-> Txt(<<"{", "\"", "o", "f", "f", "s", "e", "t", "\"", ":", "-", "0", ".", "5", "}">>), sound |-> FALSE]>>

CodecInit ==
    /\ remote = NoRemote
    /\ chain = NoChain
    /\ call = NoCall
    /\ requests = <<>>
    /\ now = 0
    /\ \/ \E s \in SessionIds, m \in MessageIds, n \in Timestamps :
            codec = [kind |-> "handle", phase |-> "encode", origin |-> "payload",
                     payload |-> [session_id |-> s, message_id |-> m,
                                  submitted_at_ms |-> n]]
       \/ \E shape \in HandleShapes :
            codec = [kind |-> "handle", phase |-> "decode", origin |-> "shape",
                     shape |-> shape,
                     token |-> TokenOf(Stringify(ShapedHandle(shape)))]
       \/ \E i \in 1..Len(NonObjectTexts), damage \in {"none", "noise", "cut"} :
            codec = [kind |-> "handle", phase |-> "decode", origin |-> "text",
                     text |-> i,
                     token |-> IF damage = "noise"
                                   THEN <<42, 32>> \o TokenOf(NonObjectTexts[i]) \o <<33>>
                               ELSE IF damage = "cut"
                                   THEN TokenOf(NonObjectTexts[i]) \o <<61, 101, 119>>
                               ELSE TokenOf(NonObjectTexts[i])]
       \/ \E n \in Offsets :
            codec = [kind |-> "cursor", phase |-> "encode", origin |-> "payload",
                     payload |-> [offset |-> n]]
       \/ \E c \in {Absent, Given(<<>>)} :
            codec = [kind |-> "cursor", phase |-> "decode", origin |-> "absent",
                     cursor |-> c]
       \/ \E i \in 1..Len(CursorTexts) :
            codec = [kind |-> "cursor", phase |-> "decode", origin |-> "shape",
                     text |-> i, cursor |-> Given(TokenOf(CursorTexts[i].text))]
       \/ \E i \in 2..Len(NonObjectTexts) :
            codec = [kind |-> "cursor", phase |-> "decode", origin |-> "text",
                     text |-> i, cursor |-> Given(TokenOf(NonObjectTexts[i]))]

\* encodeAsyncRequestId on the drawn payload.
EncodeAsyncRequestId ==
    /\ codec.kind = "handle" /\ codec.phase = "encode"
    /\ codec' = [kind |-> "handle", phase |-> "decode", origin |-> codec.origin,
                 payload |-> codec.payload,
                 token |-> encodeAsyncRequestId(codec.payload)]
    /\ UNCHANGED <<remote, chain, call, requests, now>>

\* decodeAsyncRequestId on the token at hand.
DecodeAsyncRequestId ==
    /\ codec.kind = "handle" /\ codec.phase = "decode"
    /\ codec' = [c \in DOMAIN codec \cup {"decoded"} |->
                    IF c = "phase" THEN "done"
                    ELSE IF c = "decoded" THEN decodeAsyncRequestId(codec.token)
                    ELSE codec[c]]
    /\ UNCHANGED <<remote, chain, call, requests, now>>

\* encodeCursor on the drawn offset.
EncodeCursor ==
    /\ codec.kind = "cursor" /\ codec.phase = "encode"
    /\ codec' = [kind |-> "cursor", phase |-> "decode", origin |-> codec.origin,
                 payload |-> codec.payload,
                 cursor |-> Given(encodeCursor(codec.payload))]
    /\ UNCHANGED <<remote, chain, call, requests, now>>

\* decodeCursor on the cursor at hand.
DecodeCursor ==
    /\ codec.kind = "cursor" /\ codec.phase = "decode"
    /\ codec' = [c \in DOMAIN codec \cup {"decoded"} |->
                    IF c = "phase" THEN "done"
                    ELSE IF c = "decoded" THEN decodeCursor(codec.cursor)
                    ELSE codec[c]]
    /\ UNCHANGED <<remote, chain, call, requests, now>>

CodecNext ==
    \/ EncodeAsyncRequestId
    \/ DecodeAsyncRequestId
    \/ EncodeCursor
    \/ DecodeCursor

SpecCodec == CodecInit /\ [][CodecNext]_vars

---------------------------------------------------------------------------
(* Properties of the codecs.                                               *)

\* C6: for every session id, message id and integer submitted_at_ms >= 0,
\* decodeAsyncRequestId(encodeAsyncRequestId(x)) succeeds and returns the
\* three values of x.
HandleRoundTrip ==
    (codec.phase = "done" /\ codec.kind = "handle" /\ codec.origin = "payload")
        => /\ codec.decoded.ok
           /\ codec.decoded.session_id = codec.payload.session_id
           /\ codec.decoded.message_id = codec.payload.message_id
           /\ codec.decoded.submitted_at_ms = codec.payload.submitted_at_ms

\* A handle whose ids hold a quote, a backslash and a lone surrogate, and
\* whose timestamp is of today's magnitude, has made the round trip.
HandleRoundTripWitness ==
    /\ codec.phase = "done" /\ codec.kind = "handle" /\ codec.origin = "payload"
    /\ codec.payload.session_id = <<34, 10, 92>>
    /\ codec.payload.message_id = <<56832, 34>>
    /\ codec.payload.submitted_at_ms.k = "big"
    /\ codec.decoded.ok
    /\ codec.decoded.message_id = <<56832, 34>>

\* C7: for every integer offset >= 0, decodeCursor(encodeCursor({offset}))
\* returns that offset, and decodeCursor of an absent or empty cursor
\* returns offset 0.
CursorRoundTrip ==
    /\ (codec.phase = "done" /\ codec.kind = "cursor" /\ codec.origin = "payload")
          => codec.decoded = [ok |-> TRUE, offset |-> codec.payload.offset]
    /\ (codec.phase = "done" /\ codec.kind = "cursor" /\ codec.origin = "absent")
          => codec.decoded = [ok |-> TRUE, offset |-> NumInt(0)]

\* The offset 2^31 has made the round trip.
CursorRoundTripWitness ==
    /\ codec.phase = "done" /\ codec.kind = "cursor" /\ codec.origin = "payload"
    /\ codec.payload.offset = NumBig(Txt(<<"2", "1", "4", "7", "4", "8", "3", "6", "4", "8">>), FALSE)
    /\ codec.decoded.ok
    /\ codec.decoded.offset = NumBig(Txt(<<"2", "1", "4", "7", "4", "8", "3", "6", "4", "8">>), FALSE)

\* C8: decodeCursor fails with the invalid-cursor error for every non-empty
\* cursor whose payload lacks offset, has an offset that is no number, or a
\* negative or fractional one, and for every cursor that is no JSON object
\* at all; a sound payload decodes.
MalformedCursorRejected ==
    (codec.phase = "done" /\ codec.kind = "cursor"
            /\ codec.origin \in {"shape", "text"})
        => IF codec.origin = "shape" /\ CursorTexts[codec.text].sound
               THEN codec.decoded.ok
           ELSE codec.decoded = InvalidCursor

\* C9: decodeAsyncRequestId fails with the invalid-handle error for every
\* input that is no JSON object, or whose payload lacks session_id,
\* message_id or submitted_at_ms, or has one of them with another type; a
\* handle it accepts carries the three values of its payload, none of them
\* a default.
MalformedHandleRejected ==
    (codec.phase = "done" /\ codec.kind = "handle" /\ codec.origin # "payload")
        => IF /\ codec.origin = "shape"
              /\ codec.shape.session_id = "string"
              /\ codec.shape.message_id = "string"
              /\ codec.shape.submitted_at_ms = "number"
               THEN codec.decoded = [ok |-> TRUE,
                                     session_id |-> Txt(<<"s", "e", "s", "_", "1">>),
                                     message_id |-> Txt(<<"m", "1">>),
                                     submitted_at_ms |-> NumInt(1000)]
           ELSE codec.decoded = InvalidAsyncRequestId

\* A handle whose payload has both ids and no submitted_at_ms was refused.
MalformedHandleRejectedWitness ==
    /\ codec.phase = "done" /\ codec.kind = "handle" /\ codec.origin = "shape"
    /\ codec.shape = [session_id |-> "string", message_id |-> "string",
                      submitted_at_ms |-> "missing"]
    /\ codec.decoded = InvalidAsyncRequestId

---------------------------------------------------------------------------
(* A caller paging through one session.                                    *)

MaxHistory == 3
LargeTextLen == 160

\* The text of a message of the given size.
TextOf(size) ==
    IF size = "small" THEN Txt(<<"h", "i">>) ELSE [i \in 1..LargeTextLen |-> 120]

\* The history whose i-th message has size sizes[i]: user and assistant
\* messages in turn, each assistant message the child of the user message
\* before it.
History(sizes) ==
    [i \in 1..Len(sizes) |->
        Message(<<109, 48 + i>>,
                IF i % 2 = 1 THEN Txt(<<"u", "s", "e", "r">>) ELSE Txt(<<"a", "s", "s", "i", "s", "t", "a", "n", "t">>),
                IF i % 2 = 1 THEN <<>> ELSE <<109, 48 + i - 1>>,
                TextOf(sizes[i]))]

Histories ==
    UNION {[1..n -> {"small", "large"}] : n \in 0..MaxHistory}

Limits == {NoNumber, Number(1), Number(2)}

Budgets == {Number(1), Number(90), Number(105), Number(120), Number(160), NoNumber}

FieldLists ==
    {[given |-> FALSE, list |-> <<>>],
     [given |-> TRUE, list |-> <<Star>>]}

SessionId == Txt(<<"s", "e", "s", "_", "1">>)

NoResult == [isError |-> FALSE, requests |-> <<>>]

PageInit ==
    /\ codec = NoCodec
    /\ call = NoCall
    /\ requests = <<>>
    /\ now = 0
    /\ \E sizes \in Histories :
          remote = [status |-> 200, history |-> History(sizes), mode |-> "oldest"]
    /\ \E limit \in Limits, budget \in Budgets, fields \in FieldLists :
          chain = [phase |-> "calling",
                   args |-> [session_id |-> SessionId, limit |-> limit,
                             max_output_tokens |-> budget, fields |-> fields],
                   cursor |-> Absent,
                   called |-> Absent,
                   delivered |-> <<>>,
                   clean |-> TRUE,
                   last |-> NoResult]

\* The arguments of the next call of the chain.
CallArgs ==
    [session_id |-> chain.args.session_id,
     limit |-> chain.args.limit,
     cursor |-> chain.cursor,
     max_output_tokens |-> chain.args.max_output_tokens,
     fields |-> chain.args.fields]

\* The caller calls opencode_get_messages with the cursor it holds and
\* takes the next_cursor of the response for its next call; it stops at a
\* failure and at a response without next_cursor.
GetPage ==
    /\ chain.phase = "calling"
    /\ \E result \in {opencode_get_messages(CallArgs, remote)} :
       /\ requests' = result.requests
       /\ chain' =
              IF result.isError
              THEN [chain EXCEPT !.phase = "done", !.called = chain.cursor,
                                 !.last = result]
              ELSE [chain EXCEPT
                       !.phase = IF result.payload.page.next_cursor.given
                                     THEN "calling" ELSE "done",
                       !.cursor = result.payload.page.next_cursor,
                       !.called = chain.cursor,
                       !.delivered = @ \o result.payload.items,
                       !.clean = @ /\ ~result.payload.budget.truncated,
                       !.last = result]
    /\ UNCHANGED <<remote, codec, call, now>>

PageNext == GetPage

SpecPage == PageInit /\ [][PageNext]_vars

---------------------------------------------------------------------------
(* Properties of paging.                                                   *)

\* A call has been made and has returned a page.
PageReturned == chain.last # NoResult /\ ~chain.last.isError

\* The offset the last call was made at.
CalledOffset == decodeCursor(chain.called).offset.v

\* The first n messages of the history as the requested fields show them.
ExpectedItems(n) ==
    [k \in 1..n |->
        projectMessage(remote.history[k],
                       parseRequestedFields(chain.args.fields)).projected]

\* The response that delivers exactly the first message of the slice at
\* offset o to a call made with the given cursor: more is to come iff the
\* slice or the history goes on after that message, and the page counts as
\* truncated iff the slice does.
OneItemEnvelope(cursor, o) ==
    LET pageSize == PageSize(chain.args.limit)
        requestedFields == parseRequestedFields(chain.args.fields)
        messages == ListMessages(remote.history, o + pageSize + 1, remote.mode)
        rawPage == Slice(messages, o, o + pageSize)
        item == projectMessage(rawPage[1], requestedFields).projected
        more == Len(rawPage) > 1 \/ Len(messages) > o + Len(rawPage)
    IN  [session_id |-> chain.args.session_id,
         items |-> <<item>>,
         page |-> [limit |-> pageSize,
                   cursor |-> cursor,
                   next_cursor |-> IF more
                                       THEN Given(encodeCursor([offset |-> NumInt(o + 1)]))
                                   ELSE Absent,
                   has_more |-> more,
                   offset |-> o,
                   returned |-> 1],
         budget |-> [max_output_tokens |-> MaxOutputTokens(chain.args.max_output_tokens),
                     estimated_output_tokens |-> estimateTokensFromObject(JArr(<<item>>)),
                     truncated |-> Len(rawPage) > 1,
                     finish_reason |-> IF Len(rawPage) > 1 THEN "length" ELSE "stop"],
         projection |-> [requested_fields |-> requestedFields,
                         missing_fields |-> MissingFields(rawPage, requestedFields)],
         notice |-> Absent]

\* Whether that response is within the token budget.
OneItemFits(cursor, o) ==
    estimateTokensFromObject(PayloadJson(OneItemEnvelope(cursor, o)))
        <= MaxOutputTokens(chain.args.max_output_tokens)

\* The cursor a chain started without cursor holds at offset o.
ChainCursor(o) ==
    IF o = 0 THEN Absent ELSE Given(encodeCursor([offset |-> NumInt(o)]))

\* The remote keeps the oldest messages, all fields are asked for.
PaginationPremise ==
    /\ remote.mode = "oldest"
    /\ chain.args.fields = [given |-> TRUE, list |-> <<Star>>]

\* C1: over a fixed history whose list call returns the first `limit`
\* messages, with fields ["*"] and a budget no page exceeds, the chain
\* started without cursor delivers the messages of the history in order,
\* each page full or the last one, and when it ends it has delivered all of
\* them and its last response has has_more = false and no next_cursor; and
\* every call but the last delivers at least one more message, so that the
\* chain ends after at most N calls.
PaginationExhaustive ==
    /\ []((PaginationPremise /\ chain.clean) =>
            /\ chain.delivered = SubSeq(remote.history, 1, Len(chain.delivered))
            /\ PageReturned =>
                  /\ CalledOffset + chain.last.payload.page.returned
                        = Len(chain.delivered)
                  /\ chain.last.payload.page.returned
                        = Min(PageSize(chain.args.limit),
                              Len(remote.history) - CalledOffset)
            /\ chain.phase = "done" =>
                  /\ chain.delivered = remote.history
                  /\ ~chain.last.payload.page.has_more
                  /\ ~chain.last.payload.page.next_cursor.given)
    /\ [][(PaginationPremise /\ chain'.clean) =>
              \/ chain'.phase = "done"
              \/ Len(chain'.delivered) > Len(chain.delivered)]_vars

\* Three messages paged by two: the second and last call was made at
\* offset 2 and the chain has delivered the history.
PaginationExhaustiveWitness ==
    /\ PaginationPremise /\ chain.clean /\ chain.phase = "done"
    /\ Len(remote.history) = 3
    /\ chain.args.limit = Number(2)
    /\ chain.called = Given(encodeCursor([offset |-> NumInt(2)]))
    /\ chain.delivered = remote.history
    /\ ~chain.last.payload.page.has_more

\* C2: a call that returns at least one item and a next_cursor returns a
\* next_cursor that decodes to the input offset plus the number of items
\* returned, which is beyond the input offset.
CursorAdvances ==
    (/\ PageReturned
     /\ Len(chain.last.payload.items) >= 1
     /\ chain.last.payload.page.next_cursor.given)
        => LET next == decodeCursor(chain.last.payload.page.next_cursor) IN
           /\ next.ok
           /\ next.offset = NumInt(CalledOffset + Len(chain.last.payload.items))
           /\ next.offset.v > CalledOffset

\* A call made at offset 1 for two messages returned one of them, the
\* budget holding no more, and a next_cursor for offset 2.
CursorAdvancesWitness ==
    /\ PageReturned
    /\ chain.called = Given(encodeCursor([offset |-> NumInt(1)]))
    /\ chain.args.limit = Number(2)
    /\ Len(chain.last.payload.items) = 1
    /\ chain.last.payload.budget.truncated
    /\ chain.last.payload.page.next_cursor
           = Given(encodeCursor([offset |-> NumInt(2)]))

\* Every message of the history fits the budget in a response of its own.
EverySingleMessageFits ==
    \A o \in 0..(Len(remote.history) - 1) : OneItemFits(ChainCursor(o), o)

BudgetPremise == remote.mode = "oldest" /\ EverySingleMessageFits

\* C3: under a budget that every single message fits in a response of its
\* own, the chain delivers the messages of the history in order, each call
\* starting at the first message not yet delivered, and every call made
\* while messages remain delivers at least one more of them.
BudgetedPaginationExhaustive ==
    /\ [](BudgetPremise =>
            /\ chain.delivered = ExpectedItems(Len(chain.delivered))
            /\ PageReturned =>
                  /\ CalledOffset + chain.last.payload.page.returned
                        = Len(chain.delivered)
                  /\ chain.phase = "calling" =>
                        decodeCursor(chain.cursor).offset
                            = NumInt(Len(chain.delivered))
                  /\ chain.phase = "done" =>
                        Len(chain.delivered) = Len(remote.history))
    /\ [][(BudgetPremise /\ Len(chain.delivered) < Len(remote.history)) =>
              Len(chain'.delivered) > Len(chain.delivered)]_vars

\* A chain over three messages has delivered them all although one of its
\* pages was cut short by the budget.
BudgetedPaginationExhaustiveWitness ==
    /\ BudgetPremise /\ ~chain.clean /\ chain.phase = "done"
    /\ Len(remote.history) = 3
    /\ chain.args.limit # Number(1)
    /\ chain.delivered = ExpectedItems(3)

\* The last call found at least one message at its offset.
SliceNonEmpty == PageReturned /\ CalledOffset < Len(remote.history)

\* C4: a call whose slice is not empty returns no item iff the response
\* with just the first message of the slice exceeds the budget.
AtLeastOneItemWhenItFits ==
    SliceNonEmpty =>
        (Len(chain.last.payload.items) = 0
            <=> ~OneItemFits(chain.called, CalledOffset))

\* A call for two messages returned the first one only, a large one that
\* fits the budget on its own.
AtLeastOneItemWhenItFitsWitness ==
    /\ SliceNonEmpty
    /\ chain.args.limit = Number(2)
    /\ Len(remote.history) - CalledOffset >= 2
    /\ OneItemFits(chain.called, CalledOffset)
    /\ chain.last.payload.page.returned = 1
    /\ chain.last.payload.budget.truncated
    /\ chain.last.payload.budget.estimated_output_tokens > 50

\* C5: a call that returns no item because of the budget returns
\* has_more = true, a next_cursor that decodes to the input offset, and the
\* notice.
EmptyPageCarriesNotice ==
    (/\ PageReturned
     /\ Len(chain.last.payload.items) = 0
     /\ chain.last.payload.budget.truncated)
        => /\ chain.last.payload.page.has_more
           /\ chain.last.payload.page.next_cursor.given
           /\ decodeCursor(chain.last.payload.page.next_cursor)
                  = [ok |-> TRUE, offset |-> NumInt(CalledOffset)]
           /\ chain.last.payload.notice = Given(NoticeText)

---------------------------------------------------------------------------
(* opencode_wait_for_reply and the remote endpoints it reads.              *)

\* info.<key> of a message when it is a non-empty string, as getMessageId,
\* getMessageRole and getMessageParentId read it; [given |-> FALSE] is null.
InfoString(message, key) ==
    LET value == GetProperty(GetProperty(message, Txt(<<"i", "n", "f", "o">>)), key) IN
    IF value.t = "string" /\ value.s # <<>> THEN Given(value.s) ELSE Absent

getMessageId(message) == InfoString(message, Txt(<<"i", "d">>))
getMessageRole(message) == InfoString(message, Txt(<<"r", "o", "l", "e">>))
getMessageParentId(message) == InfoString(message, Txt(<<"p", "a", "r", "e", "n", "t", "I", "D">>))

\* The positions of the assistant messages whose parent is parentMessageId.
MatchingReplies(messages, parentMessageId) ==
    {i \in 1..Len(messages) :
        /\ getMessageRole(messages[i]) = Given(Txt(<<"a", "s", "s", "i", "s", "t", "a", "n", "t">>))
        /\ getMessageParentId(messages[i]) = Given(parentMessageId)}

\* A correlator that finds no reply.
findNoAssistantReply(messages, parentMessageId) ==
    [found |-> FALSE, message |-> JNull]

\* A correlator that keeps the first such message of the list.
findFirstAssistantReplyByParentId(messages, parentMessageId) ==
    LET matching == MatchingReplies(messages, parentMessageId) IN
    IF matching = {} THEN [found |-> FALSE, message |-> JNull]
    ELSE [found |-> TRUE,
          message |-> messages[CHOOSE i \in matching : \A j \in matching : i <= j]]

\* findLatestAssistantReplyByParentId: the last such message of the list.
findLatestAssistantReplyByParentId(messages, parentMessageId) ==
    LET matching == MatchingReplies(messages, parentMessageId) IN
    IF matching = {} THEN [found |-> FALSE, message |-> JNull]
    ELSE [found |-> TRUE,
          message |-> messages[CHOOSE i \in matching : \A j \in matching : j <= i]]

\* A fetch of an optional list that posts.
fetchOptionalJsonPosting(rem, path) ==
    [request |-> [method |-> "POST", path |-> path], ok |-> rem.aux = 200]

\* fetchOptionalJson: the request, and whether it brought a body (a
\* response that is not 2xx, like a failed fetch, gives null).
fetchOptionalJson(rem, path) ==
    [request |-> [method |-> "GET", path |-> path], ok |-> rem.aux = 200]

\* fetchSessionStatusForSession: the type of the session's entry in
\* GET /session/status, "null" when the request failed or the entry is
\* missing or of no known type.
fetchSessionStatusForSession(rem, sessionId) ==
    LET raw == fetchOptionalJson(rem, "/session/status") IN
    [request |-> raw.request,
     sessionStatus |->
         IF raw.ok /\ sessionId = rem.session
                /\ rem.sessionStatus \in {"idle", "busy", "retry"}
             THEN rem.sessionStatus
         ELSE "null"]

\* A normalisation that keeps the entries without id.
normalizePendingQuestionsUnnamed(value) ==
    SelectSeq(value, LAMBDA item : item.sessionID # <<>>)

\* normalizePendingQuestions on the entries of GET /question.  An entry is
\* [id, sessionID, questions], a question [question, header]; a member that
\* is missing or no string is the empty string here, as the function makes
\* it.  Entries without id or without session are dropped.
normalizePendingQuestions(value) ==
    SelectSeq(value, LAMBDA item : item.id # <<>> /\ item.sessionID # <<>>)

\* A fetch of the pending questions that keeps those of every session.
fetchPendingQuestionsAnySession(rem, sessionId) ==
    LET raw == fetchOptionalJson(rem, "/question") IN
    [request |-> raw.request,
     questions |-> IF raw.ok THEN normalizePendingQuestions(rem.questions) ELSE <<>>]

\* A fetch of the pending questions that takes the list for read when the
\* request failed.
fetchPendingQuestionsDespiteFailure(rem, sessionId) ==
    LET raw == fetchOptionalJson(rem, "/question") IN
    [request |-> raw.request,
     questions |->
         SelectSeq(normalizePendingQuestions(rem.questions),
                   LAMBDA question : question.sessionID = sessionId)]

\* fetchPendingQuestionsForSession: the pending questions of GET /question
\* that belong to the session; none when the request failed.
fetchPendingQuestionsForSession(rem, sessionId) ==
    LET raw == fetchOptionalJson(rem, "/question") IN
    [request |-> raw.request,
     questions |->
         IF raw.ok
             THEN SelectSeq(normalizePendingQuestions(rem.questions),
                            LAMBDA question : question.sessionID = sessionId)
         ELSE <<>>]

\* Summaries that count one question per request.
QuestionSummariesOfOne(pending) ==
    [i \in 1..Len(pending) |->
        [request_id |-> pending[i].id,
         question_count |-> 1,
         headers |-> <<pending[i].questions[1].header>>]]

\* pending.map(question => ({request_id, question_count, headers}))
QuestionSummaries(pending) ==
    [i \in 1..Len(pending) |->
        [request_id |-> pending[i].id,
         question_count |-> Len(pending[i].questions),
         headers |-> [j \in 1..Len(pending[i].questions) |->
                         pending[i].questions[j].header]]]

\* `msg_async_${Date.now()}_${Math.random().toString(36).slice(2, 10)}`,
\* random being the characters the random number gives.
generateMessageId(nowMs, random) ==
    Txt(<<"m", "s", "g", "_", "a", "s", "y", "n", "c", "_">>) \o NumberText(nowMs) \o Txt(<<"_">>) \o random

\* The waiting parameters of opencode_wait_for_reply, from whole numbers.
TimeoutMs(timeout_seconds) ==
    Max((IF timeout_seconds.given THEN timeout_seconds.n ELSE 30) * 1000, 1000)

IntervalMs(poll_interval_ms) ==
    Max(IF poll_interval_ms.given THEN poll_interval_ms.n ELSE 500, 300)

\* A limit of the poll that has no upper end.
PollLimitValueUncapped(poll_limit) ==
    Max(IF poll_limit.given THEN poll_limit.n ELSE 200, 1)

PollLimitValue(poll_limit) ==
    Min(Max(IF poll_limit.given THEN poll_limit.n ELSE 200, 1), MAX_MESSAGE_LIMIT)

\* A catch that returns the error without its flag.
ErrorResultUnflagged(message) == [isError |-> FALSE, error |-> message]

\* What the catch of the tool-call handler makes of an error.
ErrorResult(message) == [isError |-> TRUE, error |-> message]

\* A resolved result that takes every session not idle for streaming.
ResolvedResultUnlessIdle(reply, sessionStatus, elapsed) ==
    [isError |-> FALSE,
     outcome |-> "resolved",
     reply_message_id |-> getMessageId(reply),
     reply |-> reply,
     streaming |-> sessionStatus # "idle",
     session_status |-> sessionStatus,
     elapsed_ms |-> elapsed]

\* The reply found, with how the session stands.
ResolvedResult(reply, sessionStatus, elapsed) ==
    [isError |-> FALSE,
     outcome |-> "resolved",
     reply_message_id |-> getMessageId(reply),
     reply |-> reply,
     streaming |-> sessionStatus \in {"busy", "retry"},
     session_status |-> sessionStatus,
     elapsed_ms |-> elapsed]

\* The wait ended by questions pending in the session.
BlockedResult(questions, elapsed) ==
    [isError |-> FALSE,
     outcome |-> "blocked",
     blocked_by |-> "question",
     pending_questions |-> QuestionSummaries(questions),
     elapsed_ms |-> elapsed]

\* A timeout report that leaves the partial reply out.
TimedOutResultWithoutReply(latestMatching, sessionStatus, windowCount, elapsed) ==
    [isError |-> FALSE,
     outcome |-> "timed_out",
     timed_out |-> TRUE,
     streaming |-> sessionStatus \in {"busy", "retry"},
     session_status |-> sessionStatus,
     latest_partial_reply |-> JNull,
     message_window_count |-> windowCount,
     elapsed_ms |-> elapsed]

\* The timeout report with its diagnostics.
TimedOutResult(latestMatching, sessionStatus, windowCount, elapsed) ==
    [isError |-> FALSE,
     outcome |-> "timed_out",
     timed_out |-> TRUE,
     streaming |-> sessionStatus \in {"busy", "retry"},
     session_status |-> sessionStatus,
     latest_partial_reply |-> latestMatching,
     message_window_count |-> windowCount,
     elapsed_ms |-> elapsed]

\* opencode_chat_async held back by questions pending in the session.
BlockedBeforeSendResult(targetSessionId, pendingBeforeSend) ==
    [isError |-> FALSE,
     outcome |-> "blocked",
     session_id |-> targetSessionId,
     blocked_by |-> "question",
     pending_questions |-> QuestionSummaries(pendingBeforeSend)]

\* An accepted result whose handle names a message id made anew.
AcceptedResultRegenerated(targetSessionId, asyncMessageId, submittedAtMs) ==
    [isError |-> FALSE,
     outcome |-> "accepted",
     session_id |-> targetSessionId,
     message_id |-> asyncMessageId,
     submitted_at_ms |-> submittedAtMs,
     async_request_id |->
         encodeAsyncRequestId([session_id |-> targetSessionId,
                               message_id |-> generateMessageId(submittedAtMs, <<>>),
                               submitted_at_ms |-> NumInt(submittedAtMs)])]

\* opencode_chat_async after prompt_async took the message: the handle is
\* made of the session, the message id and the time of submission.
AcceptedResult(targetSessionId, asyncMessageId, submittedAtMs) ==
    [isError |-> FALSE,
     outcome |-> "accepted",
     session_id |-> targetSessionId,
     message_id |-> asyncMessageId,
     submitted_at_ms |-> submittedAtMs,
     async_request_id |->
         encodeAsyncRequestId([session_id |-> targetSessionId,
                               message_id |-> asyncMessageId,
                               submitted_at_ms |-> NumInt(submittedAtMs)])]

---------------------------------------------------------------------------
(* opencode_list_sessions.  A session is [id, title], the title optional.  *)

\* text.includes(part)
Contains(text, part) ==
    \E i \in 1..(Len(text) - Len(part) + 1) :
        SubSeq(text, i, i + Len(part) - 1) = part

\* text.toLowerCase(), for the letters A to Z.
ToLowerCase(text) ==
    [i \in 1..Len(text) |-> IF text[i] \in 65..90 THEN text[i] + 32 ELSE text[i]]

\* GET /session?limit=: the remote lists its sessions, the first `limit` of
\* them when it is asked for so many.
ListSessions(sessions, limit) ==
    IF limit.given /\ limit.n >= 0 /\ limit.n < Len(sessions)
        THEN SubSeq(sessions, 1, limit.n)
    ELSE sessions

\* sessions.slice(0, end) for a whole number end, which counts from the end
\* of the array when it is negative.
SliceTo(sessions, end) ==
    SubSeq(sessions, 1,
           IF end < 0 THEN Max(Len(sessions) + end, 0) ELSE Min(end, Len(sessions)))

\* The handler of opencode_list_sessions: twice the limit is asked for when
\* a limit is given and is not 0, the sessions with "subagent" in the title
\* are dropped unless include_subagents is true, and what is left is cut to
\* the limit.
opencode_list_sessions(args, rem) ==
    LET limit == args.limit
        sends == limit.given /\ limit.n # 0
        request == [method |-> "GET", path |-> "/session",
                    limit |-> IF sends THEN Number(limit.n * 2) ELSE NoNumber]
    IN  IF rem.aux # 200
        THEN [isError |-> TRUE,
              error |-> Txt(<<"F", "a", "i", "l", "e", "d", " ", "t", "o", " ", "l", "i", "s", "t", " ", "s", "e", "s", "s", "i", "o", "n", "s", ":", " ">>) \o NumberText(rem.aux),
              requests |-> <<request>>]
        ELSE LET sessions == ListSessions(rem.sessions, request.limit)
                 showSubagents == args.include_subagents = "true"
                 filtered ==
                     IF ~showSubagents
                     THEN SelectSeq(sessions,
                              LAMBDA s : ~(s.title.given
                                           /\ Contains(ToLowerCase(s.title.s),
                                                       Txt(<<"s", "u", "b", "a", "g", "e", "n", "t">>))))
                     ELSE sessions
             IN [isError |-> FALSE, outcome |-> "sessions",
                 sessions |-> IF sends /\ Len(filtered) > limit.n
                              THEN SliceTo(filtered, limit.n)
                              ELSE filtered,
                 requests |-> <<request>>]

---------------------------------------------------------------------------
(* The bridge serving tool calls against a remote agent that moves.  The   *)
(* remote is left alone between the end of a call and the hand-over of its *)
(* result, a moment in which nothing reads it.                             *)

MaxSession == 2

\* What Date.now() reads when opencode_chat_async asks it, and the
\* characters Math.random() gives the message id.
ClockReadings == {1000, 1001}
RandomSuffix == Txt(<<"k", "3", "j", "9", "x", "2", "a", "b">>)

\* The message a client sent to SessionId by opencode_chat_async.
TargetId == generateMessageId(1000, RandomSuffix)

\* The id the remote gives a session it creates.
CreatedSessionId == Txt(<<"s", "e", "s", "_", "2">>)

\* The body of an error response.
ErrorBody == Txt(<<"u", "n", "a", "v", "a", "i", "l", "a", "b", "l", "e">>)

\* The sessions the remote lists: the session of the client and the one of
\* a subagent.
KnownSessions ==
    <<[id |-> Txt(<<"s", "e", "s", "_", "1">>), title |-> Given(Txt(<<"M", "a", "i", "n">>))],
      [id |-> CreatedSessionId, title |-> Given(Txt(<<"S", "u", "b", "a", "g", "e", "n", "t", " ", "r", "u", "n">>))]>>

\* The handle chat_async returned for the prompt TargetId of SessionId.
GoodHandle ==
    encodeAsyncRequestId([session_id |-> SessionId, message_id |-> TargetId,
                          submitted_at_ms |-> NumInt(1000)])

\* Handles that are no handle: a payload short of a member, one with a
\* member of another type, a text that is no JSON.
BadHandles ==
    {TokenOf(Stringify(ShapedHandle(
         [session_id |-> "string", message_id |-> "missing",
          submitted_at_ms |-> "number"]))),
     TokenOf(Stringify(ShapedHandle(
         [session_id |-> "number", message_id |-> "string",
          submitted_at_ms |-> "number"]))),
     TokenOf(Txt(<<"{", "\"", "s", "e", "s", "s", "i", "o", "n", "_", "i", "d", "\"", ":", "\"", "s", "e", "s", "_", "1", "\"", ",", "\"", "m", "e", "s", "s", "a", "g", "e", "_", "i", "d", "\"", ":", "\"", "m", "s", "g", "_", "1", "\"">>)),
     Txt(<<"n", "o", "t", " ", "a", " ", "h", "a", "n", "d", "l", "e">>)}

\* The handle of another prompt of the session, which has no reply.
OtherHandle ==
    encodeAsyncRequestId([session_id |-> SessionId, message_id |-> Txt(<<"m", "s", "g", "_", "o", "t", "h", "e", "r">>),
                          submitted_at_ms |-> NumInt(1000)])

\* What decodeAsyncRequestId makes of each handle of the clients.
DecodedHandles ==
    [handle \in {GoodHandle, OtherHandle} \cup BadHandles |->
        decodeAsyncRequestId(handle)]

GoodCursors == {Absent, Given(encodeCursor([offset |-> NumInt(1)]))}

\* Cursors that are no cursor: a payload without offset, with an offset
\* that is no number, a negative or fractional one, a text that is no JSON.
BadCursors ==
    {Given(TokenOf(Txt(<<"{", "}">>))),
     Given(TokenOf(Txt(<<"{", "\"", "o", "f", "f", "s", "e", "t", "\"", ":", "n", "u", "l", "l", "}">>))),
     Given(TokenOf(Txt(<<"{", "\"", "o", "f", "f", "s", "e", "t", "\"", ":", "\"", "1", "\"", "}">>))),
     Given(TokenOf(Txt(<<"{", "\"", "o", "f", "f", "s", "e", "t", "\"", ":", "-", "1", "}">>))),
     Given(TokenOf(Txt(<<"{", "\"", "o", "f", "f", "s", "e", "t", "\"", ":", "1", ".", "5", "}">>))),
     Given(Txt(<<"n", "o", "t", " ", "a", " ", "c", "u", "r", "s", "o", "r">>))}

ChatSessions == {Absent, Given(SessionId)}

Timeouts == {Number(0), Number(1)}
Intervals == {NoNumber, Number(1000)}
PollLimits == {NoNumber, Number(1)}

\* The message the remote appends at position n: the assistant's reply to
\* TargetId, or an assistant message of another exchange.
Appended(kind, n) ==
    IF kind = "reply"
        THEN Message(<<97, 48 + n>>, Txt(<<"a", "s", "s", "i", "s", "t", "a", "n", "t">>), TargetId, Txt(<<"p", "a", "r">>))
    ELSE Message(<<97, 48 + n>>, Txt(<<"a", "s", "s", "i", "s", "t", "a", "n", "t">>), Txt(<<"m", "s", "g", "_", "0">>), Txt(<<"o", "t", "h", "e", "r">>))

BridgeInit ==
    /\ chain = NoChain
    /\ codec = NoCodec
    /\ call = NoCall
    /\ requests = <<>>
    /\ now = 0
    /\ \E mode \in {"oldest", "latest"} :
          remote = [status |-> 200,
                    aux |-> 200,
                    post |-> 200,
                    history |-> <<Message(TargetId, Txt(<<"u", "s", "e", "r">>), <<>>, Txt(<<"a", "s", "k">>))>>,
                    mode |-> mode,
                    session |-> SessionId,
                    sessionStatus |-> "busy",
                    questions |-> <<>>,
                    sessions |-> KnownSessions]

\* The remote appends a message to the session.
RemoteAppends ==
    /\ call.pc # "returned"
    /\ Len(remote.history) < MaxSession
    /\ \E kind \in {"reply", "other"} :
          remote' = [remote EXCEPT
                        !.history = Append(@, Appended(kind, Len(@) + 1))]
    /\ UNCHANGED <<chain, codec, call, requests, now>>

\* The assistant completes the reply that is the last message.
RemoteCompletes ==
    /\ call.pc # "returned"
    /\ remote.history[Len(remote.history)]
           = Appended("reply", Len(remote.history))
    /\ remote' = [remote EXCEPT
                     !.history[Len(remote.history)] =
                         Message(<<97, 48 + Len(remote.history)>>, Txt(<<"a", "s", "s", "i", "s", "t", "a", "n", "t">>),
                                 TargetId, Txt(<<"p", "a", "r", "t", "i", "a", "l", ",", " ", "a", "n", "d", " ", "t", "h", "e", " ", "r", "e", "s", "t">>))]
    /\ UNCHANGED <<chain, codec, call, requests, now>>

\* The session changes its status; "none" is a session without entry in
\* the status map.
RemoteSetsStatus ==
    /\ call.pc # "returned"
    /\ \E type \in {"idle", "busy", "retry", "none"} :
          /\ type # remote.sessionStatus
          /\ remote' = [remote EXCEPT !.sessionStatus = type]
    /\ UNCHANGED <<chain, codec, call, requests, now>>

\* A pending entry of GET /question with one question per header.
PendingQuestion(id, sessionID, headers) ==
    [id |-> id, sessionID |-> sessionID,
     questions |-> [j \in 1..Len(headers) |->
                       [question |-> Txt(<<"w", "h", "i", "c", "h", "?">>), header |-> headers[j]]]]

\* What GET /question may list: nothing; a request of two questions in the
\* session; an entry without id in the session and a request in another
\* session; a request in each of the two sessions.
QuestionLists ==
    {<<>>,
     <<PendingQuestion(Txt(<<"q", "u", "e", "_", "1">>), SessionId, <<Txt(<<"P", "i", "c", "k">>), Txt(<<"C", "o", "n", "f", "i", "r", "m">>)>>)>>,
     <<PendingQuestion(<<>>, SessionId, <<Txt(<<"P", "i", "c", "k">>)>>),
       PendingQuestion(Txt(<<"q", "u", "e", "_", "2">>), CreatedSessionId, <<Txt(<<"A", "l", "l", "o", "w">>)>>)>>,
     <<PendingQuestion(Txt(<<"q", "u", "e", "_", "2">>), CreatedSessionId, <<Txt(<<"A", "l", "l", "o", "w">>)>>),
       PendingQuestion(Txt(<<"q", "u", "e", "_", "1">>), SessionId, <<Txt(<<"P", "i", "c", "k">>), Txt(<<"C", "o", "n", "f", "i", "r", "m">>)>>)>>}

\* A question is put in some session, or the pending one is answered.
RemoteAsks ==
    /\ call.pc # "returned"
    /\ \E questions \in QuestionLists :
          /\ questions # remote.questions
          /\ remote' = [remote EXCEPT !.questions = questions]
    /\ UNCHANGED <<chain, codec, call, requests, now>>

\* The statuses the remote answers with: the message list, the other GET
\* endpoints, the POST endpoints.
Healths ==
    {<<200, 200, 200>>, <<500, 200, 200>>, <<200, 503, 200>>,
     <<200, 200, 502>>, <<500, 503, 502>>}

\* The remote starts or stops failing.
RemoteFails ==
    /\ call.pc # "returned"
    /\ \E health \in Healths :
          /\ health # <<remote.status, remote.aux, remote.post>>
          /\ remote' = [remote EXCEPT !.status = health[1], !.aux = health[2],
                                      !.post = health[3]]
    /\ UNCHANGED <<chain, codec, call, requests, now>>

\* A request takes its time: the clock is at the deadline of the wait.
TimePasses ==
    /\ call.tool = "opencode_wait_for_reply"
    /\ call.pc # "returned"
    /\ now < call.deadline
    /\ now' = call.deadline
    /\ UNCHANGED <<remote, chain, codec, call, requests>>

\* opencode_get_messages is called with this cursor; the handler runs to
\* its end.
GetMessagesCalled(cursor) ==
    /\ call.pc = "idle"
    /\ \E result \in {opencode_get_messages(
                          [session_id |-> SessionId, limit |-> Number(1),
                           cursor |-> cursor, max_output_tokens |-> NoNumber,
                           fields |-> [given |-> TRUE, list |-> <<Star>>]],
                          remote)} :
          /\ call' = [tool |-> "opencode_get_messages", pc |-> "returned",
                      malformed |-> cursor \in BadCursors,
                      result |-> result]
          /\ requests' = result.requests
    /\ now' = 0
    /\ UNCHANGED <<remote, codec>>

\* A client calls opencode_get_messages.
CallGetMessages ==
    /\ call.pc = "idle"
    /\ \E cursor \in GoodCursors \cup BadCursors : GetMessagesCalled(cursor)
    /\ UNCHANGED chain

\* A handler of opencode_wait_for_reply that takes the time of an earlier
\* call for its start.
WaitForReplyCalledStaleClock(handle, requestPayload, timeout, interval, limit) ==
    /\ call.pc = "idle"
    /\ call' =
              IF ~requestPayload.ok
              THEN [tool |-> "opencode_wait_for_reply", pc |-> "returned",
                    malformed |-> handle \in BadHandles,
                    result |-> ErrorResult(requestPayload.error)]
              ELSE [tool |-> "opencode_wait_for_reply", pc |-> "loop",
                    malformed |-> handle \in BadHandles,
                    async_request_id |-> handle,
                    session_id |-> requestPayload.session_id,
                    targetMessageId |-> requestPayload.message_id,
                    timeoutMs |-> TimeoutMs(timeout),
                    intervalMs |-> IntervalMs(interval),
                    pollLimitValue |-> PollLimitValue(limit),
                    startTime |-> 0,
                    deadline |-> TimeoutMs(timeout),
                    latestMatchingReply |-> JNull,
                    sessionStatus |-> "null"]
    /\ requests' = <<>>
    /\ UNCHANGED <<remote, codec, now>>

\* opencode_wait_for_reply is called with these arguments, requestPayload
\* being what the handle decodes to: a handle that is none ends the call,
\* the waiting parameters are fixed otherwise.
WaitForReplyCalled(handle, requestPayload, timeout, interval, limit) ==
    /\ call.pc = "idle"
    /\ call' =
              IF ~requestPayload.ok
              THEN [tool |-> "opencode_wait_for_reply", pc |-> "returned",
                    malformed |-> handle \in BadHandles,
                    result |-> ErrorResult(requestPayload.error)]
              ELSE [tool |-> "opencode_wait_for_reply", pc |-> "loop",
                    malformed |-> handle \in BadHandles,
                    async_request_id |-> handle,
                    session_id |-> requestPayload.session_id,
                    targetMessageId |-> requestPayload.message_id,
                    timeoutMs |-> TimeoutMs(timeout),
                    intervalMs |-> IntervalMs(interval),
                    pollLimitValue |-> PollLimitValue(limit),
                    startTime |-> 0,
                    deadline |-> TimeoutMs(timeout),
                    latestMatchingReply |-> JNull,
                    sessionStatus |-> "null"]
    /\ requests' = <<>>
    /\ now' = 0
    /\ UNCHANGED <<remote, codec>>

\* A client calls opencode_wait_for_reply.
CallWaitForReply ==
    /\ call.pc = "idle"
    /\ \E handle \in {GoodHandle} \cup BadHandles :
       \E requestPayload \in {DecodedHandles[handle]} :
       \E timeout \in Timeouts, interval \in Intervals, limit \in PollLimits :
          WaitForReplyCalled(handle, requestPayload, timeout, interval, limit)
    /\ UNCHANGED chain

\* The call ends with the given result.
Returned(result) ==
    [tool |-> call.tool, pc |-> "returned", malformed |-> call.malformed,
     result |-> result]

\* while (Date.now() < deadline): the message window is fetched and
\* searched for the reply; a failed fetch ends the call.
WaitFetchMessages ==
    /\ call.pc = "loop"
    /\ IF now >= call.deadline
       THEN /\ call' = [call EXCEPT !.pc = "diagnostics"]
            /\ UNCHANGED requests
       ELSE \E messages \in {fetchSessionMessages(remote, call.session_id,
                                                  call.pollLimitValue)} :
            /\ requests' = Append(requests, messages.request)
            /\ call' =
                   IF ~messages.ok
                   THEN Returned(ErrorResult(messages.error))
                   ELSE LET latestMatchingReply ==
                                findLatestAssistantReplyByParentId(
                                    messages.messages, call.targetMessageId)
                        IN IF latestMatchingReply.found
                           THEN [call EXCEPT
                                    !.pc = "status",
                                    !.latestMatchingReply =
                                        latestMatchingReply.message]
                           ELSE [call EXCEPT !.pc = "questions"]
    /\ UNCHANGED <<remote, chain, codec, now>>

\* The reply is there: the status of the session is fetched; the reply of
\* an idle session is fetched once more, any other is returned.
WaitFetchStatus ==
    /\ call.pc = "status"
    /\ \E status \in {fetchSessionStatusForSession(remote, call.session_id)} :
          /\ requests' = Append(requests, status.request)
          /\ call' =
                 IF status.sessionStatus = "idle"
                 THEN [call EXCEPT !.pc = "refresh", !.sessionStatus = "idle"]
                 ELSE Returned(ResolvedResult(call.latestMatchingReply,
                                              status.sessionStatus,
                                              now - call.startTime))
    /\ UNCHANGED <<remote, chain, codec, now>>

\* A second fetch whose window is not looked at.
WaitRefreshIgnored ==
    /\ call.pc = "refresh"
    /\ \E refreshed \in {fetchSessionMessages(remote, call.session_id,
                                              call.pollLimitValue)} :
          /\ requests' = Append(requests, refreshed.request)
          /\ call' = Returned(ResolvedResult(call.latestMatchingReply,
                                             call.sessionStatus,
                                             now - call.startTime))
    /\ UNCHANGED <<remote, chain, codec, now>>

\* The second fetch of an idle session: its reply is returned if it brings
\* one, the reply of the first fetch otherwise.
WaitRefreshMessages ==
    /\ call.pc = "refresh"
    /\ \E refreshed \in {fetchSessionMessages(remote, call.session_id,
                                              call.pollLimitValue)} :
          /\ requests' = Append(requests, refreshed.request)
          /\ LET refreshedReply ==
                     findLatestAssistantReplyByParentId(refreshed.messages,
                                                        call.targetMessageId)
             IN call' = Returned(ResolvedResult(
                            IF refreshed.ok /\ refreshedReply.found
                                THEN refreshedReply.message
                            ELSE call.latestMatchingReply,
                            call.sessionStatus, now - call.startTime))
    /\ UNCHANGED <<remote, chain, codec, now>>

\* No reply yet: a pending question of the session ends the call.
WaitFetchQuestions ==
    /\ call.pc = "questions"
    /\ \E pending \in {fetchPendingQuestionsForSession(remote, call.session_id)} :
          /\ requests' = Append(requests, pending.request)
          /\ call' =
                 IF Len(pending.questions) > 0
                 THEN Returned(BlockedResult(pending.questions,
                                             now - call.startTime))
                 ELSE [call EXCEPT !.pc = "sleep"]
    /\ UNCHANGED <<remote, chain, codec, now>>

\* A sleep of half the interval.
WaitSleepHalf ==
    /\ call.pc = "sleep"
    /\ now' = now + (call.intervalMs \div 2)
    /\ call' = [call EXCEPT !.pc = "loop"]
    /\ UNCHANGED <<remote, chain, codec, requests>>

\* await sleep(intervalMs)
WaitSleep ==
    /\ call.pc = "sleep"
    /\ now' = now + call.intervalMs
    /\ call' = [call EXCEPT !.pc = "loop"]
    /\ UNCHANGED <<remote, chain, codec, requests>>

\* The deadline has passed: the diagnostics are collected, every failure
\* swallowed, and the timeout is returned.
WaitDiagnostics ==
    /\ call.pc = "diagnostics"
    /\ \E latest \in {fetchSessionMessages(remote, call.session_id,
                                           call.pollLimitValue)},
          status \in {fetchSessionStatusForSession(remote, call.session_id)} :
          /\ requests' = requests \o <<latest.request, status.request,
                                       fetchOptionalJson(remote, "/permission").request,
                                       fetchOptionalJson(remote, "/question").request>>
          /\ LET latestMatching ==
                     findLatestAssistantReplyByParentId(latest.messages,
                                                        call.targetMessageId)
             IN call' = Returned(TimedOutResult(
                            latestMatching.message, status.sessionStatus,
                            Len(latest.messages), now - call.startTime))
    /\ UNCHANGED <<remote, chain, codec, now>>

\* A client calls opencode_chat_async; with a session of its own the time
\* of submission is read and the message id made at once.
CallChatAsync ==
    /\ call.pc = "idle"
    /\ \E session_id \in ChatSessions :
          IF ~session_id.given \/ session_id.s = <<>>
          THEN call' = [tool |-> "opencode_chat_async", pc |-> "create",
                        malformed |-> FALSE,
                        targetSessionId |-> <<>>,
                        submittedAtMs |-> 0,
                        asyncMessageId |-> <<>>]
          ELSE \E submittedAtMs \in ClockReadings, idTime \in ClockReadings :
                  /\ idTime >= submittedAtMs
                  /\ call' = [tool |-> "opencode_chat_async", pc |-> "pending",
                              malformed |-> FALSE,
                              targetSessionId |-> session_id.s,
                              submittedAtMs |-> submittedAtMs,
                              asyncMessageId |->
                                  generateMessageId(idTime, RandomSuffix)]
    /\ requests' = <<>>
    /\ now' = 0
    /\ UNCHANGED <<remote, chain, codec>>

\* POST /session for a caller without session: a response that is not 2xx
\* ends the call, the id of the new session is the target otherwise.
ChatCreateSession ==
    /\ call.pc = "create"
    /\ requests' = Append(requests, [method |-> "POST", path |-> "/session"])
    /\ IF remote.post # 200
       THEN call' = Returned(ErrorResult(
                        Txt(<<"F", "a", "i", "l", "e", "d", " ", "t", "o", " ", "c", "r", "e", "a", "t", "e", " ", "s", "e", "s", "s", "i", "o", "n", ":", " ">>) \o NumberText(remote.post)
                            \o Txt(<<" ", "-", " ">>) \o ErrorBody))
       ELSE \E submittedAtMs \in ClockReadings, idTime \in ClockReadings :
               /\ idTime >= submittedAtMs
               /\ call' = [call EXCEPT
                              !.pc = "pending",
                              !.targetSessionId = CreatedSessionId,
                              !.submittedAtMs = submittedAtMs,
                              !.asyncMessageId =
                                  generateMessageId(idTime, RandomSuffix)]
    /\ UNCHANGED <<remote, chain, codec, now>>

\* The questions pending in the target session are asked for before the
\* message is sent: any of them ends the call.
ChatCheckQuestions ==
    /\ call.pc = "pending"
    /\ \E pendingBeforeSend \in {fetchPendingQuestionsForSession(
                                     remote, call.targetSessionId)} :
          /\ requests' = Append(requests, pendingBeforeSend.request)
          /\ call' =
                 IF Len(pendingBeforeSend.questions) > 0
                 THEN Returned(BlockedBeforeSendResult(
                          call.targetSessionId, pendingBeforeSend.questions))
                 ELSE [call EXCEPT !.pc = "post"]
    /\ UNCHANGED <<remote, chain, codec, now>>

\* POST /session/{id}/prompt_async with the message id: a response that is
\* not 2xx ends the call, the handle is made and returned otherwise.
ChatPost ==
    /\ call.pc = "post"
    /\ requests' = Append(requests,
                          [method |-> "POST",
                           path |-> "/session/{id}/prompt_async",
                           session |-> call.targetSessionId,
                           messageID |-> call.asyncMessageId])
    /\ call' =
           IF remote.post # 200
           THEN Returned(ErrorResult(
                    Txt(<<"F", "a", "i", "l", "e", "d", " ", "t", "o", " ", "s", "e", "n", "d", " ", "a", "s", "y", "n", "c", " ", "m", "e", "s", "s", "a", "g", "e", ":", " ">>) \o NumberText(remote.post)
                        \o Txt(<<" ", "-", " ">>) \o ErrorBody))
           ELSE Returned(AcceptedResult(call.targetSessionId, call.asyncMessageId,
                                        call.submittedAtMs))
    /\ UNCHANGED <<remote, chain, codec, now>>

\* A handler of one step ends with its result.
Ended(tool, result) ==
    [tool |-> tool, pc |-> "returned", malformed |-> FALSE, result |-> result]

\* `Failed to ...: ${response.status} - ${error}` of the POST handlers.
PostError(what, status) ==
    ErrorResult(what \o NumberText(status) \o Txt(<<" ", "-", " ">>) \o ErrorBody)

\* opencode_chat: a session is created for a caller without one, the
\* message is posted to the session and the response awaited.
CallChat ==
    /\ call.pc = "idle"
    /\ \E session_id \in ChatSessions :
          LET create == [method |-> "POST", path |-> "/session"]
              creates == ~session_id.given \/ session_id.s = <<>>
              targetSessionId == IF creates THEN CreatedSessionId ELSE session_id.s
              send == [method |-> "POST", path |-> "/session/{id}/message",
                       session |-> targetSessionId]
          IN IF creates /\ remote.post # 200
             THEN /\ requests' = <<create>>
                  /\ call' = Ended("opencode_chat",
                                   PostError(Txt(<<"F", "a", "i", "l", "e", "d", " ", "t", "o", " ", "c", "r", "e", "a", "t", "e", " ", "s", "e", "s", "s", "i", "o", "n", ":", " ">>), remote.post))
             ELSE /\ requests' = (IF creates THEN <<create>> ELSE <<>>) \o <<send>>
                  /\ call' = Ended("opencode_chat",
                                   IF remote.post # 200
                                   THEN PostError(Txt(<<"F", "a", "i", "l", "e", "d", " ", "t", "o", " ", "s", "e", "n", "d", " ", "m", "e", "s", "s", "a", "g", "e", ":", " ">>), remote.post)
                                   ELSE [isError |-> FALSE, outcome |-> "sent",
                                         session_id |-> targetSessionId])
    /\ now' = 0
    /\ UNCHANGED <<remote, chain, codec>>

\* opencode_list_questions: the pending questions, of one session when the
\* caller names it; a list that cannot be fetched is an empty one.
CallListQuestions ==
    /\ call.pc = "idle"
    /\ \E session_id \in ChatSessions :
       \E raw \in {fetchOptionalJson(remote, "/question")} :
          LET allQuestions == IF raw.ok THEN normalizePendingQuestions(remote.questions)
                              ELSE <<>>
              questions == IF session_id.given /\ session_id.s # <<>>
                           THEN SelectSeq(allQuestions,
                                          LAMBDA item : item.sessionID = session_id.s)
                           ELSE allQuestions
          IN /\ requests' = <<raw.request>>
             /\ call' = Ended("opencode_list_questions",
                              [isError |-> FALSE, outcome |-> "questions",
                               count |-> Len(questions), items |-> questions])
    /\ now' = 0
    /\ UNCHANGED <<remote, chain, codec>>

\* opencode_answer_question and opencode_reject_question: one POST to the
\* request of the question.
CallAnswerQuestion ==
    /\ call.pc = "idle"
    /\ \E verb \in {"reply", "reject"} :
          /\ requests' = <<[method |-> "POST",
                            path |-> IF verb = "reply" THEN "/question/{id}/reply"
                                     ELSE "/question/{id}/reject",
                            request_id |-> Txt(<<"q", "u", "e", "_", "1">>)]>>
          /\ call' = Ended(IF verb = "reply" THEN "opencode_answer_question"
                           ELSE "opencode_reject_question",
                           IF remote.post # 200
                           THEN PostError(IF verb = "reply"
                                          THEN Txt(<<"F", "a", "i", "l", "e", "d", " ", "t", "o", " ", "a", "n", "s", "w", "e", "r", " ", "q", "u", "e", "s", "t", "i", "o", "n", ":", " ">>)
                                          ELSE Txt(<<"F", "a", "i", "l", "e", "d", " ", "t", "o", " ", "r", "e", "j", "e", "c", "t", " ", "q", "u", "e", "s", "t", "i", "o", "n", ":", " ">>),
                                          remote.post)
                           ELSE [isError |-> FALSE,
                                 outcome |-> IF verb = "reply" THEN "answered"
                                             ELSE "rejected",
                                 request_id |-> Txt(<<"q", "u", "e", "_", "1">>)])
    /\ now' = 0
    /\ UNCHANGED <<remote, chain, codec>>

\* opencode_create_session: one POST /session.
CallCreateSession ==
    /\ call.pc = "idle"
    /\ requests' = <<[method |-> "POST", path |-> "/session"]>>
    /\ call' = Ended("opencode_create_session",
                     IF remote.post # 200
                     THEN PostError(Txt(<<"F", "a", "i", "l", "e", "d", " ", "t", "o", " ", "c", "r", "e", "a", "t", "e", " ", "s", "e", "s", "s", "i", "o", "n", ":", " ">>), remote.post)
                     ELSE [isError |-> FALSE, outcome |-> "created",
                           session_id |-> CreatedSessionId])
    /\ now' = 0
    /\ UNCHANGED <<remote, chain, codec>>

\* opencode_list_sessions is called with these arguments.
ListSessionsCalled(limit, include_subagents) ==
    /\ call.pc = "idle"
    /\ \E result \in {opencode_list_sessions(
                          [limit |-> limit, include_subagents |-> include_subagents],
                          remote)} :
          /\ requests' = result.requests
          /\ call' = Ended("opencode_list_sessions",
                           IF result.isError THEN ErrorResult(result.error)
                           ELSE [isError |-> FALSE, outcome |-> "sessions",
                                 sessions |-> result.sessions])
    /\ now' = 0
    /\ UNCHANGED <<remote, codec>>

\* A client calls opencode_list_sessions.
CallListSessions ==
    /\ call.pc = "idle"
    /\ \E limit \in {NoNumber, Number(1)}, include_subagents \in {"absent", "true"} :
          ListSessionsCalled(limit, include_subagents)
    /\ UNCHANGED chain

\* opencode_get_session and opencode_check_health: one GET, whose response
\* that is not 2xx is an error naming the status.
CallReadOnce ==
    /\ call.pc = "idle"
    /\ \E tool \in {"opencode_get_session", "opencode_check_health"} :
          /\ requests' = <<[method |-> "GET",
                            path |-> IF tool = "opencode_get_session"
                                     THEN "/session/{id}" ELSE "/global/health"]>>
          /\ call' = Ended(tool,
                           IF remote.aux # 200
                           THEN ErrorResult(
                                    (IF tool = "opencode_get_session"
                                     THEN Txt(<<"F", "a", "i", "l", "e", "d", " ", "t", "o", " ", "g", "e", "t", " ", "s", "e", "s", "s", "i", "o", "n", ":", " ">>)
                                     ELSE Txt(<<"H", "e", "a", "l", "t", "h", " ", "c", "h", "e", "c", "k", " ", "f", "a", "i", "l", "e", "d", ":", " ">>))
                                    \o NumberText(remote.aux))
                           ELSE [isError |-> FALSE, outcome |-> "read"])
    /\ now' = 0
    /\ UNCHANGED <<remote, chain, codec>>

\* default: throw new Error(`Unknown tool: ${name}`)
CallUnknownTool ==
    /\ call.pc = "idle"
    /\ requests' = <<>>
    /\ call' = Ended("opencode_nothing",
                     ErrorResult(Txt(<<"U", "n", "k", "n", "o", "w", "n", " ", "t", "o", "o", "l", ":", " ", "o", "p", "e", "n", "c", "o", "d", "e", "_", "n", "o", "t", "h", "i", "n", "g">>)))
    /\ now' = 0
    /\ UNCHANGED <<remote, chain, codec>>

\* The client has its result; the bridge keeps nothing of the call.
Return ==
    /\ call.pc = "returned"
    /\ call' = NoCall
    /\ requests' = <<>>
    /\ now' = 0
    /\ UNCHANGED <<remote, chain, codec>>

Next ==
    \/ RemoteAppends
    \/ RemoteCompletes
    \/ RemoteSetsStatus
    \/ RemoteAsks
    \/ RemoteFails
    \/ TimePasses
    \/ CallGetMessages
    \/ CallWaitForReply
    \/ CallChatAsync
    \/ ChatCreateSession
    \/ ChatCheckQuestions
    \/ ChatPost
    \/ WaitFetchMessages
    \/ WaitFetchStatus
    \/ WaitRefreshMessages
    \/ WaitFetchQuestions
    \/ WaitSleep
    \/ WaitDiagnostics
    \/ CallChat
    \/ CallListQuestions
    \/ CallAnswerQuestion
    \/ CallCreateSession
    \/ CallListSessions
    \/ CallReadOnce
    \/ CallUnknownTool
    \/ Return

Init == BridgeInit

Spec == Init /\ [][Next]_vars

---------------------------------------------------------------------------
(* findLatestAssistantReplyByParentId on drawn message windows.            *)

MaxWindow == 3

\* What a window may hold at position n: the reply looked for, an assistant
\* message of another exchange, a user message naming the target as its
\* parent, an assistant message without parent, one whose parent is the
\* empty string, a null, and a message whose info is no object.
WindowKinds ==
    {"reply", "other", "user", "orphan", "unnamed", "null", "flat"}

WindowMessage(kind, n, target) ==
    CASE kind = "reply" -> Message(<<109, 48 + n>>, Txt(<<"a", "s", "s", "i", "s", "t", "a", "n", "t">>), target, Txt(<<"r">>))
      [] kind = "other" -> Message(<<109, 48 + n>>, Txt(<<"a", "s", "s", "i", "s", "t", "a", "n", "t">>), Txt(<<"m", "s", "g", "_", "0">>), Txt(<<"o">>))
      [] kind = "user" -> Message(<<109, 48 + n>>, Txt(<<"u", "s", "e", "r">>), target, Txt(<<"u">>))
      [] kind = "orphan" -> Message(<<109, 48 + n>>, Txt(<<"a", "s", "s", "i", "s", "t", "a", "n", "t">>), <<>>, Txt(<<"a">>))
      [] kind = "unnamed" ->
            JObj(<<[k |-> Txt(<<"i", "n", "f", "o">>),
                    v |-> JObj(<<[k |-> Txt(<<"i", "d">>), v |-> JStr(<<109, 48 + n>>)],
                                 [k |-> Txt(<<"r", "o", "l", "e">>), v |-> JStr(Txt(<<"a", "s", "s", "i", "s", "t", "a", "n", "t">>))],
                                 [k |-> Txt(<<"p", "a", "r", "e", "n", "t", "I", "D">>), v |-> JStr(<<>>)]>>)]>>)
      [] kind = "null" -> JNull
      [] OTHER -> JObj(<<[k |-> Txt(<<"i", "n", "f", "o">>), v |-> JStr(Txt(<<"a", "s", "s", "i", "s", "t", "a", "n", "t">>))]>>)

RECURSIVE KindsUpTo(_)
KindsUpTo(n) ==
    IF n = 0 THEN {<<>>}
    ELSE LET shorter == KindsUpTo(n - 1) IN
        shorter \cup {Append(q, kind) : q \in shorter, kind \in WindowKinds}

WindowTargets == {Txt(<<"m", "s", "g", "_", "1">>), <<>>}

CorrelatorInit ==
    /\ remote = NoRemote
    /\ chain = NoChain
    /\ codec = NoCodec
    /\ requests = <<>>
    /\ now = 0
    /\ \E kinds \in KindsUpTo(MaxWindow), target \in WindowTargets :
          call = [tool |-> "findLatestAssistantReplyByParentId",
                  pc |-> "called",
                  messages |-> [n \in 1..Len(kinds) |->
                                   WindowMessage(kinds[n], n,
                                       IF target = <<>> THEN Txt(<<"m", "s", "g", "_", "9">>) ELSE target)],
                  parentMessageId |-> target]

FindLatestReply ==
    /\ call.tool = "findLatestAssistantReplyByParentId"
    /\ call.pc = "called"
    /\ call' = [tool |-> call.tool,
                pc |-> "returned",
                messages |-> call.messages,
                parentMessageId |-> call.parentMessageId,
                result |-> findLatestAssistantReplyByParentId(
                               call.messages, call.parentMessageId)]
    /\ UNCHANGED <<remote, chain, codec, requests, now>>

CorrelatorNext == FindLatestReply

SpecCorrelator == CorrelatorInit /\ [][CorrelatorNext]_vars

CorrelatorReturned ==
    call.tool = "findLatestAssistantReplyByParentId" /\ call.pc = "returned"

\* The positions of the window that hold an assistant-role message whose
\* info.parentID is the string `parent`.
AssistantRepliesTo(messages, parent) ==
    {i \in 1..Len(messages) :
        /\ GetProperty(GetProperty(messages[i], Txt(<<"i", "n", "f", "o">>)), Txt(<<"r", "o", "l", "e">>))
               = JStr(Txt(<<"a", "s", "s", "i", "s", "t", "a", "n", "t">>))
        /\ GetProperty(GetProperty(messages[i], Txt(<<"i", "n", "f", "o">>)), Txt(<<"p", "a", "r", "e", "n", "t", "I", "D">>))
               = JStr(parent)}

\* C11: the reply chosen is the last assistant-role message of the window
\* whose parentID equals the target, and null iff the window has none.
LatestReplyChosen ==
    CorrelatorReturned =>
        LET matching == AssistantRepliesTo(call.messages, call.parentMessageId) IN
        /\ call.result.found <=> matching # {}
        /\ call.result.found =>
              \E i \in matching :
                 /\ \A j \in matching : j <= i
                 /\ call.result.message = call.messages[i]

\* C11: the reply chosen is the last assistant-role message of the window
\* whose parentID is a non-empty string equal to the target, and null iff
\* the window has none; an empty parentID counts as no parent, so that the
\* empty target has no reply.
LatestNamedReplyChosen ==
    CorrelatorReturned =>
        LET matching ==
                IF call.parentMessageId = <<>> THEN {}
                ELSE AssistantRepliesTo(call.messages, call.parentMessageId) IN
        /\ call.result.found <=> matching # {}
        /\ ~call.result.found => call.result.message = JNull
        /\ call.result.found =>
              \E i \in matching :
                 /\ \A j \in matching : j <= i
                 /\ call.result.message = call.messages[i]

\* A window with two replies around a user message that names the target:
\* the second reply is chosen.
LatestNamedReplyChosenWitness ==
    /\ CorrelatorReturned
    /\ Len(call.messages) = 3
    /\ AssistantRepliesTo(call.messages, call.parentMessageId) = {1, 3}
    /\ call.result.found
    /\ call.result.message = call.messages[3]

\* C10: a call given a malformed async_request_id or a malformed cursor
\* returns an error and has issued no request to the remote agent.
MalformedTokenSendsNoRequest ==
    (call.pc = "returned" /\ call.malformed)
        => (call.result.isError /\ requests = <<>>)

---------------------------------------------------------------------------
(* What opencode_wait_for_reply and opencode_chat_async return.  A step of  *)
(* the call is a step that changes `call`.                                  *)

WaitCall == call.tool = "opencode_wait_for_reply"
ChatCall == call.tool = "opencode_chat_async"
CallSteps == call' # call

\* The messages GET /session/{id}/message gives the poll now.
Window == ListMessages(remote.history, call.pollLimitValue, remote.mode)

\* The questions GET /question lists now for the session, those that name
\* their request; none when the endpoint fails.
PendingFor(sessionId) ==
    IF remote.aux = 200
        THEN SelectSeq(remote.questions,
                       LAMBDA q : q.id # <<>> /\ q.sessionID = sessionId)
    ELSE <<>>

\* summaries lists the questions of pending: request id, question count
\* and headers of each, in order.
Summarises(summaries, pending) ==
    /\ Len(summaries) = Len(pending)
    /\ \A i \in 1..Len(pending) :
          /\ summaries[i].request_id = pending[i].id
          /\ summaries[i].question_count = Len(pending[i].questions)
          /\ Len(summaries[i].headers) = Len(pending[i].questions)
          /\ \A j \in 1..Len(pending[i].questions) :
                summaries[i].headers[j] = pending[i].questions[j].header

\* The status GET /session/status gives now for the session, "null" when
\* the endpoint fails or has no entry of a known type for it.
StatusRead ==
    IF /\ remote.aux = 200
       /\ remote.session = call.session_id
       /\ remote.sessionStatus \in {"idle", "busy", "retry"}
        THEN remote.sessionStatus
    ELSE "null"

\* The poll at the head of an iteration, made before the deadline.
PollStep == WaitCall /\ call.pc = "loop" /\ CallSteps /\ now < call.deadline

ResolvedNext ==
    /\ call'.pc = "returned"
    /\ ~call'.result.isError
    /\ call'.result.outcome = "resolved"

\* C12: an iteration whose window holds no matching reply asks for the
\* pending questions at once, and when the list holds a question of the
\* session the call returns Blocked in that step, listing the questions of
\* the session, without sleeping.
BlockedWhenQuestionPending ==
    /\ [][(PollStep /\ remote.status = 200
              /\ AssistantRepliesTo(Window, call.targetMessageId) = {})
            => (call'.pc = "questions" /\ now' = now)]_vars
    /\ [][(WaitCall /\ call.pc = "questions" /\ CallSteps
              /\ PendingFor(call.session_id) # <<>>)
            => /\ call'.pc = "returned"
               /\ ~call'.result.isError
               /\ call'.result.outcome = "blocked"
               /\ Summarises(call'.result.pending_questions,
                             PendingFor(call.session_id))
               /\ now' = now]_vars

\* The first poll, at time 0, ends Blocked by the request of two questions
\* while a request of another session is pending too.
BlockedWhenQuestionPendingWitness ==
    /\ WaitCall
    /\ call.pc = "returned"
    /\ ~call.result.isError
    /\ call.result.outcome = "blocked"
    /\ now = 0
    /\ Len(requests) = 2
    /\ Len(remote.questions) = 2
    /\ Len(call.result.pending_questions) = 1
    /\ call.result.pending_questions[1].question_count = 2

\* C13: an iteration whose window holds a matching reply goes on to the
\* session status and from there, through the second fetch of an idle
\* session or at once, to Resolved; it sends no question request.
ReplyNeverMasked ==
    /\ [][(PollStep /\ remote.status = 200
              /\ AssistantRepliesTo(Window, call.targetMessageId) # {})
            => (call'.pc = "status" /\ requests' = Append(requests, requests'[Len(requests')])
                /\ requests'[Len(requests')].path = "/session/{id}/message")]_vars
    /\ [][(WaitCall /\ call.pc = "status" /\ CallSteps)
            => /\ call'.pc = "refresh" \/ ResolvedNext
               /\ Len(requests') = Len(requests) + 1
               /\ requests'[Len(requests')].path = "/session/status"]_vars
    /\ [][(WaitCall /\ call.pc = "refresh" /\ CallSteps)
            => /\ ResolvedNext
               /\ Len(requests') = Len(requests) + 1
               /\ requests'[Len(requests')].path = "/session/{id}/message"]_vars

\* Resolved on the first poll, the session without status entry, while a
\* question of the session is pending.
ReplyNeverMaskedWitness ==
    /\ WaitCall
    /\ call.pc = "returned"
    /\ ~call.result.isError
    /\ call.result.outcome = "resolved"
    /\ Len(requests) = 2
    /\ remote.sessionStatus = "none"
    /\ PendingFor(SessionId) # <<>>

\* C14: a Resolved result has streaming true iff the status read in its
\* iteration is busy or retry (false for idle, for a session without status
\* and for a status that could not be fetched), and its reply_message_id is
\* the id of the reply it returns.
StreamingReflectsStatus ==
    /\ []((WaitCall /\ call.pc = "returned" /\ ~call.result.isError
              /\ call.result.outcome = "resolved")
            => /\ call.result.streaming
                     <=> call.result.session_status \in {"busy", "retry"}
               /\ JStr(call.result.reply_message_id.s)
                     = GetProperty(GetProperty(call.result.reply, Txt(<<"i", "n", "f", "o">>)), Txt(<<"i", "d">>)))
    /\ [][(WaitCall /\ call.pc = "status" /\ CallSteps)
            => IF StatusRead = "idle"
               THEN call'.pc = "refresh"
               ELSE /\ ResolvedNext
                    /\ call'.result.session_status = StatusRead
                    /\ call'.result.streaming
                          <=> StatusRead \in {"busy", "retry"}]_vars
    /\ [][(WaitCall /\ call.pc = "refresh" /\ CallSteps)
            => /\ ResolvedNext
               /\ call'.result.session_status = "idle"
               /\ ~call'.result.streaming]_vars

\* Resolved while the status endpoint fails and the remote says retry: the
\* result is not streaming.
StreamingReflectsStatusWitness ==
    /\ WaitCall
    /\ call.pc = "returned"
    /\ ~call.result.isError
    /\ call.result.outcome = "resolved"
    /\ remote.aux # 200
    /\ remote.sessionStatus = "retry"
    /\ ~call.result.streaming
    /\ call.result.session_status = "null"

\* C15: a wait with a well-formed handle ends Resolved, Blocked or TimedOut.
WaitEndsInOneOfThree ==
    (WaitCall /\ call.pc = "returned" /\ ~call.malformed)
        => /\ ~call.result.isError
           /\ call.result.outcome \in {"resolved", "blocked", "timed_out"}

\* What the last poll of a wait finds in the window, null when the list
\* cannot be fetched.
LatestInWindow ==
    LET matching == AssistantRepliesTo(Window, call.targetMessageId) IN
    IF remote.status # 200 \/ matching = {} THEN JNull
    ELSE Window[CHOOSE i \in matching : \A j \in matching : j <= i]

\* C16: TimedOut is returned only from the diagnostics entered at a loop
\* head that found the deadline passed; an iteration that saw a reply or a
\* pending question of the session never comes back to the loop head; the
\* diagnostics always end in a TimedOut result that is no error, whatever
\* fetch fails, with the latest matching reply of the last window (or null)
\* and the session status.
TimedOutOnlyAfterDeadline ==
    /\ [][(WaitCall /\ call'.pc = "diagnostics" /\ CallSteps)
            => (call.pc = "loop" /\ now >= call.deadline)]_vars
    /\ [][(WaitCall /\ CallSteps /\ call'.pc \in {"loop", "sleep"})
            => \/ call.pc = "sleep"
               \/ /\ call.pc = "questions"
                  /\ PendingFor(call.session_id) = <<>>]_vars
    /\ [][(WaitCall /\ call.pc # "returned" /\ call'.pc = "returned"
              /\ ~call'.result.isError /\ call'.result.outcome = "timed_out")
            => (call.pc = "diagnostics" /\ now >= call.deadline)]_vars
    /\ [][(WaitCall /\ call.pc = "diagnostics" /\ CallSteps)
            => /\ call'.pc = "returned"
               /\ ~call'.result.isError
               /\ call'.result.outcome = "timed_out"
               /\ call'.result.timed_out
               /\ call'.result.latest_partial_reply = LatestInWindow
               /\ call'.result.session_status = StatusRead]_vars

\* TimedOut while every endpoint of the remote fails.
TimedOutOnlyAfterDeadlineWitness ==
    /\ WaitCall
    /\ call.pc = "returned"
    /\ ~call.result.isError
    /\ call.result.outcome = "timed_out"
    /\ remote.status = 500
    /\ remote.aux = 503
    /\ call.result.latest_partial_reply = JNull
    /\ call.result.session_status = "null"
    /\ now >= 1000

\* C17: a poll whose message-list fetch fails is followed by the sleep of
\* the poll interval and another fetch.
FailedPollIsRetried ==
    [][(PollStep /\ remote.status # 200) => call'.pc = "sleep"]_vars

\* The request a handler has just sent is the one request added.
SentLast ==
    /\ Len(requests') = Len(requests) + 1
    /\ SubSeq(requests', 1, Len(requests)) = requests

\* The call ends now in an error that names the status.
AbortsNaming(status) ==
    /\ call'.pc = "returned"
    /\ call'.result.isError
    /\ Contains(call'.result.error, NumberText(status))

\* The primary fetches: the message list of opencode_get_messages, the
\* poll at the head of an iteration of opencode_wait_for_reply, the two
\* posts of opencode_chat_async.  A response that is not 2xx ends the call
\* in an error that names the status, the failed request being the last
\* one sent; a call that has ended sends nothing more.
PrimaryFetchAborts ==
    /\ [][(call.pc = "idle" /\ call'.tool = "opencode_get_messages"
              /\ ~call'.malformed /\ remote.status # 200)
            => /\ AbortsNaming(remote.status)
               /\ Len(requests') = 1
               /\ requests'[1].path = "/session/{id}/message"]_vars
    /\ [][(PollStep /\ remote.status # 200)
            => (AbortsNaming(remote.status) /\ SentLast
                /\ requests'[Len(requests')].path = "/session/{id}/message")]_vars
    /\ [][(ChatCall /\ call.pc = "create" /\ CallSteps /\ remote.post # 200)
            => (AbortsNaming(remote.post) /\ SentLast
                /\ requests'[Len(requests')].path = "/session")]_vars
    /\ [][(ChatCall /\ call.pc = "post" /\ CallSteps /\ remote.post # 200)
            => (AbortsNaming(remote.post) /\ SentLast
                /\ requests'[Len(requests')].path = "/session/{id}/prompt_async")]_vars
    /\ [][call.pc = "returned" => (call'.pc = "idle" /\ requests' = <<>>)]_vars

\* C18: a response that is not 2xx to a message-list fetch of
\* opencode_get_messages or of the polling loop of opencode_wait_for_reply,
\* or to a post of opencode_chat_async, ends the call at once in an error
\* that names the status.
NonOkFetchAborts ==
    /\ PrimaryFetchAborts
    /\ [][(WaitCall /\ call.pc = "refresh" /\ CallSteps /\ remote.status # 200)
            => AbortsNaming(remote.status)]_vars

\* C18: the second fetch of an idle session left out, a response that is
\* not 2xx to the message-list fetch of opencode_get_messages, to the poll
\* at the head of an iteration of opencode_wait_for_reply, or to a post of
\* opencode_chat_async ends the call at once in an error that names the
\* status; the failure of the second fetch of an idle session is swallowed
\* and the reply of the first fetch is returned.
NonOkPrimaryFetchAborts ==
    /\ PrimaryFetchAborts
    /\ [][(WaitCall /\ call.pc = "refresh" /\ CallSteps /\ remote.status # 200)
            => /\ ResolvedNext
               /\ call'.result.reply = call.latestMatchingReply]_vars

\* The second poll of a wait fails with 500 and ends the call, two polls and
\* the question request between them having been sent.
NonOkPrimaryFetchAbortsWitness ==
    /\ WaitCall
    /\ call.pc = "returned"
    /\ call.result.isError
    /\ ~call.malformed
    /\ remote.status = 500
    /\ Len(requests) = 3
    /\ Contains(call.result.error, <<53, 48, 48>>)

\* C19: when the check before sending finds questions pending in the target
\* session, the call returns the blocked diagnosis that lists them, sends no
\* prompt_async and issues no handle.
ChatBlockedSendsNothing ==
    /\ [][(ChatCall /\ call.pc = "pending" /\ CallSteps
              /\ PendingFor(call.targetSessionId) # <<>>)
            => /\ call'.pc = "returned"
               /\ ~call'.result.isError
               /\ call'.result.outcome = "blocked"
               /\ call'.result.session_id = call.targetSessionId
               /\ Summarises(call'.result.pending_questions,
                             PendingFor(call.targetSessionId))
               /\ "async_request_id" \notin DOMAIN call'.result
               /\ \A i \in 1..Len(requests') :
                     requests'[i].path # "/session/{id}/prompt_async"]_vars
    /\ []((ChatCall /\ call.pc = "returned" /\ ~call.result.isError
              /\ call.result.outcome = "blocked")
            => \A i \in 1..Len(requests) :
                  requests[i].path # "/session/{id}/prompt_async")

\* A chat to SessionId held back by its request of two questions.
ChatBlockedSendsNothingWitness ==
    /\ ChatCall
    /\ call.pc = "returned"
    /\ ~call.result.isError
    /\ call.result.outcome = "blocked"
    /\ call.result.session_id = SessionId
    /\ Len(call.result.pending_questions) = 1
    /\ call.result.pending_questions[1].headers = <<Txt(<<"P", "i", "c", "k">>), Txt(<<"C", "o", "n", "f", "i", "r", "m">>)>>
    /\ Len(requests) = 1

\* C20: a handle is returned only by a chat whose last request is the
\* prompt_async post the remote took with 2xx, and it decodes to the session
\* of that post, the messageID of its body and the submitted_at_ms of the
\* result; a wait keeps the session and the message id its handle decodes
\* to, polls that session, and the reply it resolves to is an assistant
\* message whose parentID is that message id.
HandleNamesAcceptedPrompt ==
    /\ []((ChatCall /\ call.pc = "returned" /\ ~call.result.isError)
            => IF call.result.outcome # "accepted"
               THEN "async_request_id" \notin DOMAIN call.result
               ELSE LET post == requests[Len(requests)]
                        decoded == decodeAsyncRequestId(call.result.async_request_id)
                    IN /\ post.method = "POST"
                       /\ post.path = "/session/{id}/prompt_async"
                       /\ remote.post = 200
                       /\ decoded.ok
                       /\ decoded.session_id = post.session
                       /\ decoded.message_id = post.messageID
                       /\ decoded.submitted_at_ms = NumInt(call.result.submitted_at_ms)
                       /\ call.result.session_id = post.session
                       /\ call.result.message_id = post.messageID)
    /\ [][(call.pc = "idle" /\ call'.tool = "opencode_wait_for_reply"
              /\ call'.pc # "returned")
            => LET decoded == decodeAsyncRequestId(call'.async_request_id) IN
               /\ decoded.ok
               /\ call'.session_id = decoded.session_id
               /\ call'.targetMessageId = decoded.message_id]_vars
    /\ [][(WaitCall /\ call.pc # "returned" /\ call'.pc # "returned")
            => /\ call'.async_request_id = call.async_request_id
               /\ call'.session_id = call.session_id
               /\ call'.targetMessageId = call.targetMessageId]_vars
    /\ []((WaitCall /\ call.pc # "returned")
            => \A i \in 1..Len(requests) :
                  requests[i].path = "/session/{id}/message"
                      => requests[i].session = call.session_id)
    /\ [][(WaitCall /\ call.pc # "returned" /\ ResolvedNext)
            => /\ getMessageRole(call'.result.reply) = Given(Txt(<<"a", "s", "s", "i", "s", "t", "a", "n", "t">>))
               /\ getMessageParentId(call'.result.reply)
                     = Given(call.targetMessageId)]_vars

\* The chat to SessionId at clock 1000 returns the handle the waits of this
\* model are called with.
HandleNamesAcceptedPromptWitness ==
    /\ ChatCall
    /\ call.pc = "returned"
    /\ ~call.result.isError
    /\ call.result.outcome = "accepted"
    /\ call.result.async_request_id = GoodHandle
    /\ Len(requests) = 2

---------------------------------------------------------------------------
(* Whose questions block, and the second fetch of an idle session.         *)

\* The entries of GET /question that name their request and belong to the
\* session, whatever the endpoint answers with.
EntriesOf(sessionId) ==
    SelectSeq(remote.questions,
              LAMBDA q : q.id # <<>> /\ q.sessionID # <<>> /\ q.sessionID = sessionId)

BlockedNow ==
    /\ call.pc = "returned"
    /\ ~call.result.isError
    /\ call.result.outcome = "blocked"

\* C26: opencode_wait_for_reply returns Blocked, and opencode_chat_async
\* holds its message back, only when the question list has an entry of the
\* target session that names its request; what the result lists are the
\* entries of that session alone, and a list that has only entries of other
\* sessions or entries without id lets the wait sleep and the chat post.
OtherSessionsNeverBlock ==
    /\ []((WaitCall /\ BlockedNow)
            => /\ remote.aux = 200
               /\ EntriesOf(SessionId) # <<>>
               /\ Summarises(call.result.pending_questions, EntriesOf(SessionId)))
    /\ []((ChatCall /\ BlockedNow)
            => /\ remote.aux = 200
               /\ EntriesOf(call.result.session_id) # <<>>
               /\ Summarises(call.result.pending_questions,
                             EntriesOf(call.result.session_id)))
    /\ [][(WaitCall /\ call.pc = "questions" /\ CallSteps
              /\ EntriesOf(call.session_id) = <<>>)
            => call'.pc = "sleep"]_vars
    /\ [][(ChatCall /\ call.pc = "pending" /\ CallSteps
              /\ EntriesOf(call.targetSessionId) = <<>>)
            => call'.pc = "post"]_vars

\* The wait for SessionId goes to sleep past a list that holds an entry of
\* SessionId without id and a request of the other session.
OtherSessionsNeverBlockWitness ==
    /\ WaitCall
    /\ call.pc = "sleep"
    /\ remote.aux = 200
    /\ Len(remote.questions) = 2
    /\ remote.questions[1].id = <<>>
    /\ remote.questions[1].sessionID = SessionId
    /\ remote.questions[2].sessionID = CreatedSessionId
    /\ requests[Len(requests)].path = "/question"

\* The message-list requests among the requests of the call.
MessageFetches(sent) ==
    Len(SelectSeq(sent, LAMBDA r : r.path = "/session/{id}/message"))

---------------------------------------------------------------------------
(* What crosses the tool boundary, and what the bridge writes.             *)

\* The call has ended in a result handed to the client.
ReturnedAsResult ==
    /\ call.pc = "returned"
    /\ "isError" \in DOMAIN call.result
    /\ call.result.isError \in BOOLEAN

\* The result is the error a decoder of handles or cursors throws.
DecodingFailure ==
    /\ call.result.isError
    /\ call.result.error \in {InvalidAsyncRequestId.error, InvalidCursor.error}

\* C23: a call with a malformed handle or cursor that the decoder rejects
\* does not end in a structured result.
DecodingFailureIsNoResult ==
    (call.pc = "returned" /\ call.malformed /\ DecodingFailure)
        => ~ReturnedAsResult

\* C23: every call ends in a structured result.  The result of a malformed
\* handle, and of a malformed cursor the decoder rejects, carries the error
\* flag and the decoder's message like any other failure, no request having
\* been sent; Blocked and TimedOut carry no error flag; a response that is
\* not 2xx to the poll of a wait, to a post, or to the one request of the
\* other tools gives a result with the error flag.
EveryOutcomeIsAResult ==
    /\ []((WaitCall /\ call.pc = "returned" /\ call.malformed)
            => (ReturnedAsResult /\ call.result.isError
                /\ call.result.error = InvalidAsyncRequestId.error
                /\ requests = <<>>))
    /\ []((call.pc = "returned" /\ call.tool = "opencode_get_messages"
              /\ call.malformed /\ requests = <<>>)
            => (ReturnedAsResult /\ call.result.isError
                /\ call.result.error = InvalidCursor.error))
    /\ [](call.pc \in {"idle", "returned", "loop", "status", "refresh",
                       "questions", "sleep", "diagnostics", "create",
                       "pending", "post"})
    /\ [](call.pc = "returned" => ReturnedAsResult)
    /\ []((call.pc = "returned" /\ call.result.isError)
            => Len(call.result.error) > 0)
    /\ []((call.pc = "returned" /\ ~call.result.isError
              /\ call.tool \in {"opencode_wait_for_reply", "opencode_chat_async"})
            => call.result.outcome
                  \in {"resolved", "blocked", "timed_out", "accepted"})
    /\ [][(PollStep /\ remote.status # 200)
            => (call'.pc = "returned" /\ call'.result.isError)]_vars
    /\ [][(ChatCall /\ call.pc \in {"create", "post"} /\ CallSteps
              /\ remote.post # 200)
            => (call'.pc = "returned" /\ call'.result.isError)]_vars
    /\ [][(call.pc = "idle" /\ remote.post # 200
              /\ call'.tool \in {"opencode_chat", "opencode_answer_question",
                                 "opencode_reject_question",
                                 "opencode_create_session"})
            => (call'.pc = "returned" /\ call'.result.isError)]_vars
    /\ [][(call.pc = "idle" /\ remote.aux # 200
              /\ call'.tool \in {"opencode_list_sessions", "opencode_get_session",
                                 "opencode_check_health"})
            => (call'.pc = "returned" /\ call'.result.isError)]_vars

\* A wait called with a handle that is no handle has returned the error of
\* the decoder as its result.
EveryOutcomeIsAResultWitness ==
    /\ WaitCall
    /\ call.pc = "returned"
    /\ call.malformed
    /\ call.result.isError
    /\ call.result.error = InvalidAsyncRequestId.error

\* The paths the reading tools ask and the paths the bridge posts to.
ReadPaths ==
    {"/session/{id}/message", "/session/status", "/question", "/permission"}

WritePaths ==
    {"/session", "/session/{id}/message", "/session/{id}/prompt_async",
     "/question/{id}/reply", "/question/{id}/reject"}

WritingTools ==
    {"opencode_chat", "opencode_chat_async", "opencode_create_session",
     "opencode_answer_question", "opencode_reject_question"}

\* C25: every request of opencode_wait_for_reply and opencode_get_messages
\* is a GET of the message list, the session status, the question list or
\* the permission list, and their steps leave the remote as it is; every
\* request of the bridge that is no GET is a POST that creates a session,
\* posts a message or answers or rejects a question.
ReadingToolsOnlyRead ==
    /\ [](call.tool \in {"opencode_wait_for_reply", "opencode_get_messages"}
            => \A i \in 1..Len(requests) :
                  /\ requests[i].method = "GET"
                  /\ requests[i].path \in ReadPaths)
    /\ [](\A i \in 1..Len(requests) :
             requests[i].method # "GET"
                 => /\ requests[i].method = "POST"
                    /\ requests[i].path \in WritePaths
                    /\ call.tool \in WritingTools)
    /\ [][(CallSteps /\ call'.tool \in {"opencode_wait_for_reply",
                                         "opencode_get_messages"})
            => remote' = remote]_vars

\* A wait that timed out after one poll has asked the four lists.
ReadingToolsOnlyReadWitness ==
    /\ WaitCall
    /\ call.pc = "returned"
    /\ ~call.result.isError
    /\ call.result.outcome = "timed_out"
    /\ {requests[i].path : i \in 1..Len(requests)} = ReadPaths
    /\ Len(requests) = 6

---------------------------------------------------------------------------
(* The waiting parameters of opencode_wait_for_reply for whole numbers of  *)
(* every size, against a remote that stands still.                         *)

TimeoutInputs == {NoNumber} \cup {Number(n) : n \in {-1, 0, 1, 2}}
IntervalInputs == {NoNumber} \cup {Number(n) : n \in {-1, 0, 299, 300, 301, 1000}}
PollLimitInputs == {NoNumber} \cup {Number(n) : n \in {-1, 0, 1, 2, 200, 201, 1000}}

\* A session without reply, one with the reply of an idle session, one
\* with a question pending.
StillRemotes ==
    {[status |-> 200, aux |-> 200, post |-> 200,
      history |-> <<Message(TargetId, Txt(<<"u", "s", "e", "r">>), <<>>, Txt(<<"a", "s", "k">>))>>
                      \o (IF kind = "replied" THEN <<Appended("reply", 2)>> ELSE <<>>),
      mode |-> "oldest",
      session |-> SessionId,
      sessionStatus |-> IF kind = "replied" THEN "idle" ELSE "busy",
      questions |-> IF kind = "asking"
                    THEN <<PendingQuestion(Txt(<<"q", "u", "e", "_", "1">>), SessionId, <<Txt(<<"P", "i", "c", "k">>)>>)>>
                    ELSE <<>>,
      sessions |-> KnownSessions] : kind \in {"quiet", "replied", "asking"}}

WaitParamsInit ==
    /\ chain = NoChain
    /\ codec = NoCodec
    /\ call = NoCall
    /\ requests = <<>>
    /\ now = 0
    /\ remote \in StillRemotes

\* The client calls opencode_wait_for_reply and keeps what it called with.
CallWaitWithIntegers ==
    /\ call.pc = "idle"
    /\ \E requestPayload \in {DecodedHandles[GoodHandle]} :
       \E timeout \in TimeoutInputs, interval \in IntervalInputs,
          limit \in PollLimitInputs :
           /\ WaitForReplyCalled(GoodHandle, requestPayload, timeout, interval, limit)
           /\ chain' = [phase |-> "waiting", timeout_seconds |-> timeout,
                        poll_interval_ms |-> interval, poll_limit |-> limit]

WaitParamsNext ==
    \/ CallWaitWithIntegers
    \/ WaitFetchMessages
    \/ WaitFetchStatus
    \/ WaitRefreshMessages
    \/ WaitFetchQuestions
    \/ WaitSleep
    \/ WaitDiagnostics
    \/ TimePasses

SpecWaitParams == WaitParamsInit /\ [][WaitParamsNext]_vars

\* The message-list requests the step adds ask for `limit` messages.
AsksFor(limit) ==
    \A i \in (Len(requests) + 1)..Len(requests') :
        requests'[i].path = "/session/{id}/message" => requests'[i].limit = limit

\* C29: the poll interval is at least 300 ms, 500 ms when none is given and
\* the given one from 300 on; the limit of a poll is in 1..200, 200 when
\* none is given and the given one within 1..200; the timeout is at least
\* 1000 ms, 30 s when none is given and the given seconds from 1 on.  The
\* wait sleeps the interval, ends at start + timeout, and every message-list
\* request it sends asks for the limit.
WaitParametersClamped ==
    /\ []((WaitCall /\ call.pc # "returned")
            => /\ call.intervalMs >= 300
               /\ ~chain.poll_interval_ms.given => call.intervalMs = 500
               /\ (chain.poll_interval_ms.given /\ chain.poll_interval_ms.n >= 300)
                     => call.intervalMs = chain.poll_interval_ms.n
               /\ call.pollLimitValue \in 1..200
               /\ ~chain.poll_limit.given => call.pollLimitValue = 200
               /\ (chain.poll_limit.given /\ chain.poll_limit.n \in 1..200)
                     => call.pollLimitValue = chain.poll_limit.n
               /\ call.timeoutMs >= 1000
               /\ ~chain.timeout_seconds.given => call.timeoutMs = 30000
               /\ (chain.timeout_seconds.given /\ chain.timeout_seconds.n >= 1)
                     => call.timeoutMs = 1000 * chain.timeout_seconds.n
               /\ call.deadline = call.startTime + call.timeoutMs)
    /\ [][(WaitCall /\ call.pc # "returned" /\ CallSteps)
            => AsksFor(call.pollLimitValue)]_vars
    /\ [][(WaitCall /\ call.pc = "sleep" /\ CallSteps)
            => now' = now + call.intervalMs]_vars
    /\ [][(WaitCall /\ call.pc = "loop" /\ CallSteps)
            => (call'.pc = "diagnostics" <=> now >= call.timeoutMs)]_vars

\* Called with poll_limit 1000, an interval of 0 and a timeout of -1, the
\* wait has polled for 200 messages, slept 300 ms and polled again.
WaitParametersClampedWitness ==
    /\ WaitCall
    /\ call.pc = "questions"
    /\ chain.poll_limit = Number(1000)
    /\ chain.poll_interval_ms = Number(0)
    /\ chain.timeout_seconds = Number(-1)
    /\ now = 300
    /\ Len(requests) = 3
    /\ requests[3].limit = 200

---------------------------------------------------------------------------
(* The page size, budget and fetch limit of opencode_get_messages for      *)
(* whole numbers of every size.                                            *)

LimitInputs == {NoNumber} \cup {Number(n) : n \in {-1, 0, 1, 2, 200, 201, 1000}}
BudgetInputs == {NoNumber} \cup {Number(n) : n \in {-1, 0, 1, 105, 20000, 20001, 100000}}
CursorInputs ==
    {Absent, Given(encodeCursor([offset |-> NumInt(1)])),
     Given(encodeCursor([offset |-> NumInt(5)]))}

LimitsInit ==
    /\ codec = NoCodec
    /\ call = NoCall
    /\ requests = <<>>
    /\ now = 0
    /\ \E sizes \in Histories :
          remote = [status |-> 200, history |-> History(sizes), mode |-> "oldest"]
    /\ \E limit \in LimitInputs, budget \in BudgetInputs, cursor \in CursorInputs :
          chain = [phase |-> "calling",
                   args |-> [session_id |-> SessionId, limit |-> limit,
                             max_output_tokens |-> budget,
                             fields |-> [given |-> FALSE, list |-> <<>>]],
                   cursor |-> cursor,
                   called |-> Absent,
                   delivered |-> <<>>,
                   clean |-> TRUE,
                   last |-> NoResult]

SpecLimits == LimitsInit /\ [][PageNext]_vars

\* The window of the last call reaches beyond the slice of its page.
WindowBeyondSlice ==
    LET page == chain.last.payload.page IN
    Len(ListMessages(remote.history, chain.last.requests[1].limit, remote.mode))
        > page.offset + page.limit

\* C30: the page size is in 1..200, 50 when no limit is given and the given
\* limit within 1..200; the budget is in 1..20000, 5000 when none is given
\* and the given one within 1..20000; the one request asks for offset +
\* page size + 1 messages; at most page size items come back; a page the
\* budget did not cut says has_more exactly when the fetched window reaches
\* beyond the slice, and a window that does always gives has_more.
PageParametersClamped ==
    PageReturned =>
        LET page == chain.last.payload.page
            budget == chain.last.payload.budget
            limit == chain.args.limit
            tokens == chain.args.max_output_tokens
        IN /\ page.limit \in 1..200
           /\ ~limit.given => page.limit = 50
           /\ (limit.given /\ limit.n \in 1..200) => page.limit = limit.n
           /\ budget.max_output_tokens \in 1..20000
           /\ ~tokens.given => budget.max_output_tokens = 5000
           /\ (tokens.given /\ tokens.n \in 1..20000)
                 => budget.max_output_tokens = tokens.n
           /\ page.offset = CalledOffset
           /\ Len(chain.last.requests) = 1
           /\ chain.last.requests[1].limit = page.offset + page.limit + 1
           /\ Len(chain.last.payload.items) <= page.limit
           /\ page.returned = Len(chain.last.payload.items)
           /\ ~budget.truncated => (page.has_more <=> WindowBeyondSlice)
           /\ WindowBeyondSlice => page.has_more

\* Called with limit 1000 at offset 1 of a history of three messages: 202
\* messages are asked for, two come back and there are no more.
PageParametersClampedWitness ==
    /\ PageReturned
    /\ chain.args.limit = Number(1000)
    /\ chain.args.max_output_tokens = Number(100000)
    /\ chain.last.payload.page.limit = 200
    /\ chain.last.payload.budget.max_output_tokens = 20000
    /\ chain.last.requests[1].limit = 202
    /\ Len(chain.last.payload.items) = 2
    /\ ~chain.last.payload.page.has_more

---------------------------------------------------------------------------
(* opencode_list_sessions against drawn session lists.                     *)

MaxListed == 3

\* Titles: none, one of a main session, three that say "subagent" in some
\* case, one that only comes close.
SessionTitles ==
    {Absent, Given(Txt(<<"M", "a", "i", "n">>)), Given(Txt(<<"S", "u", "b", "a", "g", "e", "n", "t", " ", "r", "u", "n">>)), Given(Txt(<<"m", "y", " ", "S", "U", "B", "A", "G", "E", "N", "T">>)),
     Given(Txt(<<"x", "-", "s", "u", "b", "a", "g", "e", "n", "t", "-", "y">>)), Given(Txt(<<"s", "u", "b", " ", "a", "g", "e", "n", "t">>))}

SessionLists ==
    UNION {[1..n -> SessionTitles] : n \in 0..MaxListed}

SessionLimitInputs == {NoNumber} \cup {Number(n) : n \in {-1, 0, 1, 2, 3}}

SessionsInit ==
    /\ chain = NoChain
    /\ codec = NoCodec
    /\ call = NoCall
    /\ requests = <<>>
    /\ now = 0
    /\ \E titles \in SessionLists, aux \in {200, 500} :
          remote = [aux |-> aux,
                    sessions |-> [i \in 1..Len(titles) |->
                                     [id |-> <<115, 48 + i>>, title |-> titles[i]]]]

\* The client calls opencode_list_sessions and keeps what it called with.
CallListSessionsNoted ==
    /\ call.pc = "idle"
    /\ \E limit \in SessionLimitInputs,
          include_subagents \in {"absent", "false", "true"} :
          /\ ListSessionsCalled(limit, include_subagents)
          /\ chain' = [phase |-> "listed", limit |-> limit,
                       include_subagents |-> include_subagents]

SessionsNext ==
    \/ CallListSessionsNoted
    \/ Return

SpecSessions == SessionsInit /\ [][SessionsNext]_vars

\* The title says "subagent", in whatever case.
SaysSubagent(title) ==
    LET word == Txt(<<"s", "u", "b", "a", "g", "e", "n", "t">>) IN
    /\ title.given
    /\ \E i \in 1..(Len(title.s) - Len(word) + 1) :
          \A j \in 1..Len(word) :
             title.s[i + j - 1] \in {word[j], word[j] - 32}

SessionsListed ==
    /\ call.tool = "opencode_list_sessions"
    /\ call.pc = "returned"
    /\ ~call.result.isError

\* The sessions of the remote a listing without subagents may show.
MainSessions ==
    SelectSeq(remote.sessions, LAMBDA s : ~SaysSubagent(s.title))

\* C27: without include_subagents, or with false, no session listed says
\* "subagent" in its title; with a limit L at most L sessions are listed,
\* and they are the first of those left after the subagent sessions were
\* dropped from what the remote sent.
SubagentsHiddenAndLimited ==
    SessionsListed =>
        LET listed == call.result.sessions
            limit == chain.limit
            sent == ListSessions(remote.sessions, requests[1].limit)
            left == IF chain.include_subagents = "true" THEN sent
                    ELSE SelectSeq(sent, LAMBDA s : ~SaysSubagent(s.title))
        IN /\ chain.include_subagents \in {"absent", "false"}
                 => \A i \in 1..Len(listed) : ~SaysSubagent(listed[i].title)
           /\ limit.given => Len(listed) <= limit.n
           /\ limit.given => listed = SubSeq(left, 1, Min(limit.n, Len(left)))
           /\ ~limit.given => listed = left

\* C27 for the limits from 1 on: the listing hides the subagent sessions
\* and shows at most L of the others, the first ones.
SubagentsHiddenAndLimitedFromOne ==
    (SessionsListed /\ (chain.limit.given => chain.limit.n >= 1))
        => SubagentsHiddenAndLimited
---------------------------------------------------------------------------
(* Field projection of opencode_get_messages on drawn messages and field   *)
(* lists.                                                                  *)

MaxProjected == 2

ProjectedKinds == {"user", "reply", "tooled", "bare", "null"}

\* What the remote may list at position n: a user message without parent,
\* an assistant reply that names its parent, an assistant message with a
\* creation time whose parts hold a text part, a tool part without text, a
\* string and an array, a message with no parts, and a null.
ProjectedMessage(kind, n) ==
    CASE kind = "user" -> Message(<<109, 48 + n>>, Txt(<<"u", "s", "e", "r">>), <<>>, Txt(<<"h", "i">>))
      [] kind = "reply" -> Message(<<109, 48 + n>>, Txt(<<"a", "s", "s", "i", "s", "t", "a", "n", "t">>), Txt(<<"m", "0">>), Txt(<<"y", "o">>))
      [] kind = "tooled" ->
            JObj(<<[k |-> Txt(<<"i", "n", "f", "o">>),
                    v |-> JObj(<<[k |-> Txt(<<"i", "d">>), v |-> JStr(<<109, 48 + n>>)],
                                 [k |-> Txt(<<"r", "o", "l", "e">>), v |-> JStr(Txt(<<"a", "s", "s", "i", "s", "t", "a", "n", "t">>))],
                                 [k |-> Txt(<<"t", "i", "m", "e">>),
                                  v |-> JObj(<<[k |-> Txt(<<"c", "r", "e", "a", "t", "e", "d">>),
                                                v |-> JNum(NumInt(5))]>>)]>>)],
                   [k |-> Txt(<<"p", "a", "r", "t", "s">>),
                    v |-> JArr(<<JObj(<<[k |-> Txt(<<"t", "y", "p", "e">>), v |-> JStr(Txt(<<"t", "e", "x", "t">>))],
                                        [k |-> Txt(<<"t", "e", "x", "t">>), v |-> JStr(Txt(<<"a">>))]>>),
                                 JObj(<<[k |-> Txt(<<"t", "o", "o", "l">>), v |-> JStr(Txt(<<"b", "a", "s", "h">>))]>>),
                                 JStr(Txt(<<"r", "a", "w">>)),
                                 JArr(<<JObj(<<[k |-> Txt(<<"t", "o", "o", "l">>),
                                               v |-> JStr(Txt(<<"l", "s">>))]>>)>>)>>)]>>)
      [] kind = "bare" ->
            JObj(<<[k |-> Txt(<<"i", "n", "f", "o">>),
                    v |-> JObj(<<[k |-> Txt(<<"i", "d">>), v |-> JStr(<<109, 48 + n>>)]>>)],
                   [k |-> Txt(<<"p", "a", "r", "t", "s">>), v |-> JArr(<<>>)]>>)
      [] OTHER -> JNull

RECURSIVE ProjectedKindsUpTo(_)
ProjectedKindsUpTo(n) ==
    IF n = 0 THEN {<<>>}
    ELSE LET shorter == ProjectedKindsUpTo(n - 1) IN
        shorter \cup {Append(q, kind) : q \in shorter, kind \in ProjectedKinds}

\* The `fields` arguments: none, single paths, paths that no message has,
\* a path beside its own prefix, the star among paths, padded and repeated
\* paths, and a lone dot.
ProjectedFieldLists ==
    {[given |-> FALSE, list |-> <<>>]}
    \cup {[given |-> TRUE, list |-> list] :
            list \in {<<Txt(<<"i", "n", "f", "o", ".", "i", "d">>)>>,
                      <<Txt(<<"i", "n", "f", "o", ".", "p", "a", "r", "e", "n", "t", "I", "D">>)>>,
                      <<Txt(<<"p", "a", "r", "t", "s", ".", "t", "e", "x", "t">>), Txt(<<"i", "n", "f", "o", ".", "t", "i", "m", "e", ".", "c", "r", "e", "a", "t", "e", "d">>)>>,
                      <<Txt(<<"i", "n", "f", "o", ".", "i", "d">>), Star>>,
                      <<Txt(<<"i", "n", "f", "o">>), Txt(<<"i", "n", "f", "o", ".", "i", "d">>)>>,
                      <<Txt(<<"n", "o", "t", "h", "i", "n", "g", ".", "h", "e", "r", "e">>)>>,
                      <<Txt(<<".">>)>>,
                      <<Txt(<<" ", "i", "n", "f", "o", ".", "i", "d", " ">>), Txt(<<"i", "n", "f", "o", ".", "i", "d">>), Txt(<<"i", "n", "f", "o", ".", "r", "o", "l", "e">>)>>,
                      <<Txt(<<"p", "a", "r", "t", "s", ".", "t", "o", "o", "l">>)>>,
                      <<Txt(<<"p", "a", "r", "t", "s">>)>>}}

ProjectionInit ==
    /\ codec = NoCodec
    /\ call = NoCall
    /\ requests = <<>>
    /\ now = 0
    /\ \E kinds \in ProjectedKindsUpTo(MaxProjected) :
          remote = [status |-> 200,
                    history |-> [n \in 1..Len(kinds) |-> ProjectedMessage(kinds[n], n)],
                    mode |-> "oldest"]
    /\ \E limit \in {NoNumber, Number(1)}, fields \in ProjectedFieldLists :
          chain = [phase |-> "calling",
                   args |-> [session_id |-> SessionId, limit |-> limit,
                             max_output_tokens |-> NoNumber, fields |-> fields],
                   cursor |-> Absent,
                   called |-> Absent,
                   delivered |-> <<>>,
                   clean |-> TRUE,
                   last |-> NoResult]

SpecProjection == ProjectionInit /\ [][PageNext]_vars

\* The messages of the remote that the items of the last page stand for.
PageMessages ==
    LET page == chain.last.payload.page IN
    SubSeq(remote.history, page.offset + 1, page.offset + page.returned)

RequestedFields == chain.last.payload.projection.requested_fields

\* C21: on a page that holds messages, a requested path is in missing_fields
\* exactly when it matched none of the messages of the page.
MissingFieldsMatchedNothing ==
    (PageReturned /\ RequestedFields # <<Star>> /\ Len(PageMessages) > 0) =>
        \A i \in 1..Len(RequestedFields) :
           Includes(chain.last.payload.projection.missing_fields, RequestedFields[i])
               <=> \A n \in 1..Len(PageMessages) :
                      ~pathExists(PageMessages[n], SplitPath(RequestedFields[i]))

\* What the handler does report: the requested paths that at least one
\* message of the page lacks.
MissingFieldsLackedSomewhere ==
    (PageReturned /\ RequestedFields # <<Star>>) =>
        \A i \in 1..Len(RequestedFields) :
           Includes(chain.last.payload.projection.missing_fields, RequestedFields[i])
               <=> \E n \in 1..Len(PageMessages) :
                      ~pathExists(PageMessages[n], SplitPath(RequestedFields[i]))

\* The paths of the requested fields of the last call.
RequestedPaths == [i \in 1..Len(RequestedFields) |-> SplitPath(RequestedFields[i])]

Exhausted(pathGroups) == \E i \in 1..Len(pathGroups) : Len(pathGroups[i]) = 0

RECURSIVE OnRequestedPath(_, _)
\* Every key of the projected value lies on one of the paths; below the end
\* of a path everything does.
OnRequestedPath(projected, pathGroups) ==
    IF Exhausted(pathGroups) THEN TRUE
    ELSE IF projected.t = "array"
        THEN \A i \in 1..Len(projected.a) : OnRequestedPath(projected.a[i], pathGroups)
    ELSE IF projected.t = "object"
        THEN \A i \in 1..Len(projected.m) :
                /\ \E n \in 1..Len(pathGroups) : Head(pathGroups[n]) = projected.m[i].k
                /\ OnRequestedPath(projected.m[i].v,
                                   Bucket(pathGroups, projected.m[i].k))
    ELSE FALSE

RECURSIVE NoEmptyElement(_, _)
\* No array that the projection went through holds an element with nothing
\* in it.
NoEmptyElement(projected, pathGroups) ==
    IF Exhausted(pathGroups) THEN TRUE
    ELSE IF projected.t = "array"
        THEN \A i \in 1..Len(projected.a) :
                /\ projected.a[i] \notin {JArr(<<>>), JObj(<<>>)}
                /\ NoEmptyElement(projected.a[i], pathGroups)
    ELSE IF projected.t = "object"
        THEN \A i \in 1..Len(projected.m) :
                NoEmptyElement(projected.m[i].v, Bucket(pathGroups, projected.m[i].k))
    ELSE TRUE

RECURSIVE Remains(_, _)
\* Something of the value is left: a path ends at it, it is an array, or it
\* is an object one of whose keys starts a path and leads to something left.
Remains(value, pathGroups) ==
    \/ Exhausted(pathGroups)
    \/ value.t = "array"
    \/ /\ value.t = "object"
       /\ \E n \in 1..Len(pathGroups) :
             /\ HasMember(value, Head(pathGroups[n]))
             /\ Remains(GetProperty(value, Head(pathGroups[n])),
                        Bucket(pathGroups, Head(pathGroups[n])))

RECURSIVE Projects(_, _, _)
\* `projected` is what the paths leave of `original`: the value itself where
\* a path ends; of an array its elements of which something is left, each
\* projected, in order; of an object the keys that start a path and lead to
\* something left, in the order of the paths, each with its value projected.
Projects(projected, original, pathGroups) ==
    IF Exhausted(pathGroups) THEN projected = original
    ELSE IF original.t = "array"
        THEN LET left == SelectSeq(original.a, LAMBDA e : Remains(e, pathGroups)) IN
             /\ projected.t = "array"
             /\ Len(projected.a) = Len(left)
             /\ \A i \in 1..Len(left) : Projects(projected.a[i], left[i], pathGroups)
    ELSE IF original.t = "object"
        THEN LET keys == SelectSeq(BucketKeys(pathGroups),
                             LAMBDA key :
                                 /\ HasMember(original, key)
                                 /\ Remains(GetProperty(original, key),
                                            Bucket(pathGroups, key))) IN
             /\ projected.t = "object"
             /\ [i \in 1..Len(projected.m) |-> projected.m[i].k] = keys
             /\ \A i \in 1..Len(keys) :
                   Projects(projected.m[i].v, GetProperty(original, keys[i]),
                            Bucket(pathGroups, keys[i]))
    ELSE FALSE

\* The item of a message of which nothing is left, and of a null, is {}.
ProjectsMessage(item, message, pathGroups) ==
    IF message.t = "null" \/ ~Remains(message, pathGroups) \/ message.t \notin {"array", "object"}
    THEN item = JObj(<<>>) \/ (Exhausted(pathGroups) /\ item = message)
    ELSE Projects(item, message, pathGroups)

\* C22: without "*" an item has only keys that lie on a requested path, an
\* array is projected element by element and its elements that become empty
\* are dropped; with "*" the item is the message unchanged.
ProjectionKeepsRequestedOnly ==
    PageReturned =>
        \A n \in 1..Len(PageMessages) :
           LET item == chain.last.payload.items[n] IN
           IF RequestedFields = <<Star>> THEN item = PageMessages[n]
           ELSE /\ OnRequestedPath(item, RequestedPaths)
                /\ NoEmptyElement(item, RequestedPaths)

\* C22: without "*" an item has only keys that lie on a requested path and
\* is the projection of its message, in which an array keeps, projected and
\* in order, its elements that are arrays (even when nothing is left in
\* them) and its objects with a key left, and drops the others; with "*" the
\* item is the message unchanged.
ProjectionKeepsRequested ==
    PageReturned =>
        \A n \in 1..Len(PageMessages) :
           LET item == chain.last.payload.items[n] IN
           IF RequestedFields = <<Star>> THEN item = PageMessages[n]
           ELSE /\ OnRequestedPath(item, RequestedPaths)
                /\ ProjectsMessage(item, PageMessages[n], RequestedPaths)

\* parts.text and info.time.created asked of the message with four parts:
\* the text part keeps its text, the tool part and the string are dropped,
\* the inner array stays as [], and info keeps only time.created.
ProjectionKeepsRequestedWitness ==
    /\ PageReturned
    /\ chain.args.fields = [given |-> TRUE,
                            list |-> <<Txt(<<"p", "a", "r", "t", "s", ".", "t", "e", "x", "t">>), Txt(<<"i", "n", "f", "o", ".", "t", "i", "m", "e", ".", "c", "r", "e", "a", "t", "e", "d">>)>>]
    /\ Len(PageMessages) = 2
    /\ PageMessages[2] = ProjectedMessage("tooled", 2)
    /\ chain.last.payload.items[1]
           = JObj(<<[k |-> Txt(<<"p", "a", "r", "t", "s">>),
                     v |-> JArr(<<JObj(<<[k |-> Txt(<<"t", "e", "x", "t">>), v |-> JStr(Txt(<<"h", "i">>))]>>)>>)]>>)
    /\ chain.last.payload.items[2]
           = JObj(<<[k |-> Txt(<<"p", "a", "r", "t", "s">>),
                     v |-> JArr(<<JObj(<<[k |-> Txt(<<"t", "e", "x", "t">>), v |-> JStr(Txt(<<"a">>))]>>),
                                  JArr(<<>>)>>)],
                    [k |-> Txt(<<"i", "n", "f", "o">>),
                     v |-> JObj(<<[k |-> Txt(<<"t", "i", "m", "e">>),
                                   v |-> JObj(<<[k |-> Txt(<<"c", "r", "e", "a", "t", "e", "d">>),
                                                 v |-> JNum(NumInt(5))]>>)]>>)]>>)
---------------------------------------------------------------------------
(* A call repeated after other calls, against a remote that stands still.  *)

MaxBetween == 2

\* What the client calls twice: an await or a page, with handles and
\* cursors good and bad.
RepeatedCalls ==
    {[tool |-> "opencode_wait_for_reply", handle |-> handle, timeout |-> timeout,
      interval |-> interval, limit |-> limit] :
        handle \in {GoodHandle, OtherHandle, Txt(<<"n", "o", "t", " ", "a", " ", "h", "a", "n", "d", "l", "e">>)},
        timeout \in Timeouts, interval \in Intervals, limit \in PollLimits}
    \cup {[tool |-> "opencode_get_messages", cursor |-> cursor] :
            cursor \in GoodCursors \cup {Given(Txt(<<"n", "o", "t", " ", "a", " ", "c", "u", "r", "s", "o", "r">>))}}

\* What it calls in between: awaits of other handles and lengths, pages at
\* other cursors.
CallsBetween ==
    {[tool |-> "opencode_wait_for_reply", handle |-> handle, timeout |-> Number(2),
      interval |-> Number(1000), limit |-> NoNumber] :
        handle \in {GoodHandle, OtherHandle, Txt(<<"n", "o", "t", " ", "a", " ", "h", "a", "n", "d", "l", "e">>)}}
    \cup {[tool |-> "opencode_get_messages", cursor |-> cursor] :
            cursor \in GoodCursors \cup {Given(Txt(<<"n", "o", "t", " ", "a", " ", "c", "u", "r", "s", "o", "r">>))}}

RepeatInit ==
    /\ codec = NoCodec
    /\ call = NoCall
    /\ requests = <<>>
    /\ now = 0
    /\ remote \in StillRemotes
    /\ \E repeated \in RepeatedCalls :
          chain = [phase |-> "first", repeated |-> repeated, between |-> 0,
                   first |-> NoResult, firstRequests |-> <<>>,
                   second |-> NoResult, secondRequests |-> <<>>]

\* The tool is called with the given arguments.
Called(args) ==
    \/ /\ args.tool = "opencode_get_messages"
       /\ \E cursor \in {args.cursor} : GetMessagesCalled(cursor)
    \/ /\ args.tool = "opencode_wait_for_reply"
       /\ \E handle \in {args.handle} :
          \E requestPayload \in {DecodedHandles[handle]} :
          \E timeout \in {args.timeout}, interval \in {args.interval},
             limit \in {args.limit} :
             WaitForReplyCalled(handle, requestPayload, timeout, interval, limit)

\* What the client may call next: the call it repeats, and after the first
\* of the two any other call.
CallsNow ==
    CASE chain.phase = "first" -> {chain.repeated}
      [] chain.phase = "between" ->
            {chain.repeated}
            \cup (IF chain.between < MaxBetween THEN CallsBetween ELSE {})
      [] OTHER -> {}

\* The client makes a call: the one it repeats, for the first or the second
\* time, or another one in between.
ClientCalls ==
    /\ call.pc = "idle"
    /\ \E args \in CallsNow :
          /\ Called(args)
          /\ chain' =
                 IF chain.phase = "first" THEN chain
                 ELSE IF args = chain.repeated
                     THEN [chain EXCEPT !.phase = "again"]
                 ELSE [chain EXCEPT !.between = @ + 1]

\* The result reaches the client, which notes what the two calls it
\* compares gave and what they asked of the remote; the clock runs on.
ReturnNoted ==
    /\ call.pc = "returned"
    /\ call' = NoCall
    /\ chain' =
          CASE chain.phase = "first" ->
                  [chain EXCEPT !.phase = "between", !.first = call.result,
                                !.firstRequests = requests]
            [] chain.phase = "again" ->
                  [chain EXCEPT !.phase = "done", !.second = call.result,
                                !.secondRequests = requests]
            [] OTHER -> chain
    /\ UNCHANGED <<remote, codec, requests, now>>

RepeatNext ==
    \/ ClientCalls
    \/ WaitFetchMessages
    \/ WaitFetchStatus
    \/ WaitRefreshMessages
    \/ WaitFetchQuestions
    \/ WaitSleep
    \/ WaitDiagnostics
    \/ ReturnNoted

SpecRepeat == RepeatInit /\ [][RepeatNext]_vars

\* C24: a call of opencode_wait_for_reply or opencode_get_messages repeated
\* with the same arguments against the same remote responses gives the
\* result of the first call and asks the remote the same, whatever calls
\* were made in between; between two calls the bridge holds nothing of a
\* call.
RepeatedCallSameOutcome ==
    /\ call.pc = "idle" => call = NoCall
    /\ chain.phase = "done" =>
          /\ chain.second = chain.first
          /\ chain.secondRequests = chain.firstRequests

\* An await that timed out twice with the same report, a longer await of
\* another handle and a page in between.
RepeatedCallSameOutcomeWitness ==
    /\ chain.phase = "done"
    /\ chain.between = 2
    /\ chain.repeated.tool = "opencode_wait_for_reply"
    /\ chain.repeated.handle = GoodHandle
    /\ chain.first.outcome = "timed_out"
    /\ chain.second.outcome = "timed_out"
    /\ chain.first.elapsed_ms = 1000
    /\ Len(chain.secondRequests) > 4

\* A page repeated at the same cursor after an await: the same items.
RepeatedPageWitness ==
    /\ chain.phase = "done"
    /\ chain.between > 0
    /\ chain.repeated = [tool |-> "opencode_get_messages",
                         cursor |-> Given(encodeCursor([offset |-> NumInt(1)]))]
    /\ ~chain.second.isError
    /\ Len(chain.second.payload.items) = 1
    /\ chain.second = chain.first
---------------------------------------------------------------------------
(* The envelope of a page.                                                 *)

\* The remote has nothing beyond the slice of the last call.
NothingBeyondPage ==
    LET page == chain.last.payload.page IN
    Len(remote.history) <= page.offset + page.limit

\* C31: in every page next_cursor is there exactly when has_more is true and
\* then decodes to offset + returned; returned is the number of items; a
\* truncated page has has_more true and finish_reason "length", any other
\* finish_reason "stop".
PageWellFormed ==
    PageReturned =>
        LET page == chain.last.payload.page
            budget == chain.last.payload.budget
        IN /\ page.next_cursor.given <=> page.has_more
           /\ page.next_cursor.given =>
                 LET decoded == decodeCursor(page.next_cursor) IN
                 /\ decoded.ok
                 /\ decoded.offset.v = page.offset + page.returned
           /\ page.returned = Len(chain.last.payload.items)
           /\ budget.truncated => (page.has_more /\ budget.finish_reason = "length")
           /\ ~budget.truncated => budget.finish_reason = "stop"

\* The last message of a history did not fit the envelope: the page is
\* truncated with has_more true though the remote has nothing beyond it.
PageWellFormedWitness ==
    /\ PageReturned
    /\ NothingBeyondPage
    /\ Len(remote.history) = 2
    /\ chain.last.payload.page.offset = 0
    /\ chain.last.payload.page.returned = 1
    /\ chain.last.payload.budget.truncated
    /\ chain.last.payload.page.has_more
    /\ decodeCursor(chain.last.payload.page.next_cursor).offset.v = 1
---------------------------------------------------------------------------
(* The polling iterations of one opencode_wait_for_reply, with requests    *)
(* and sleeps that take longer than they must.                             *)

\* By how many milliseconds a request or a sleep may overrun.
Delays == {250, 1000}

PollingTimeouts == {Number(1), Number(2)}
PollingIntervals == {NoNumber, Number(300), Number(700), Number(1000)}

PollingInit ==
    /\ chain = NoChain
    /\ codec = NoCodec
    /\ call = NoCall
    /\ requests = <<>>
    /\ now = 0
    /\ remote \in StillRemotes

\* The client calls opencode_wait_for_reply.
CallWaitTimed ==
    /\ call.pc = "idle"
    /\ \E requestPayload \in {DecodedHandles[GoodHandle]} :
       \E timeout \in PollingTimeouts, interval \in PollingIntervals :
           WaitForReplyCalled(GoodHandle, requestPayload, timeout, interval, NoNumber)
    /\ chain' = [phase |-> "waiting"]

\* What the handler awaited, a request or a sleep, took longer: time passes
\* only while it awaits, and the clock is read for the first time at the
\* start of the call.
AwaitTakesLonger ==
    /\ WaitCall
    /\ call.pc # "returned"
    /\ requests # <<>>
    /\ now < call.deadline
    /\ \E delay \in Delays : now' = now + delay
    /\ UNCHANGED <<remote, chain, codec, call, requests>>

PollingNext ==
    \/ CallWaitTimed
    \/ WaitFetchMessages
    \/ WaitFetchStatus
    \/ WaitRefreshMessages
    \/ WaitFetchQuestions
    \/ WaitSleep
    \/ WaitDiagnostics
    \/ AwaitTakesLonger

SpecPolling == PollingInit /\ [][PollingNext]_vars

\* The polling iterations started so far by a call that has not returned:
\* the message-list requests it has sent.
IterationsStarted ==
    Cardinality({i \in 1..Len(requests) : requests[i].path = "/session/{id}/message"})

\* Math.ceil(a / b) for whole numbers a >= 0 and b > 0.
CeilDiv(a, b) == (a + b - 1) \div b

\* C32: a wait whose handle decodes starts its first polling iteration
\* before anything else; with sleeps that last the interval or longer it
\* starts at most ceil(timeoutMs / intervalMs) iterations; and a step that
\* starts an iteration reads a clock before the deadline.
PollingIterationsBounded ==
    /\ []((WaitCall /\ call.pc \notin {"loop", "returned"})
             => /\ IterationsStarted >= 1
                /\ requests[1].path = "/session/{id}/message")
    /\ []((WaitCall /\ call.pc = "loop" /\ requests = <<>>) => now < call.deadline)
    /\ []((WaitCall /\ call.pc \notin {"refresh", "diagnostics", "returned"})
             => IterationsStarted <= CeilDiv(call.timeoutMs, call.intervalMs))
    /\ [][(WaitCall /\ call.pc = "loop" /\ requests' # requests)
             => /\ now < call.deadline
                /\ Len(requests') = Len(requests) + 1
                /\ requests'[Len(requests')].path = "/session/{id}/message"]_vars
    /\ [][(WaitCall /\ call.pc = "loop" /\ now >= call.deadline /\ call' # call)
             => (requests' = requests /\ call'.pc = "diagnostics")]_vars

\* A wait of 2000 ms with 300 ms between polls at the head of its seventh
\* iteration, the ceiling of 2000 / 300.
PollingIterationsBoundedWitness ==
    /\ WaitCall
    /\ call.pc = "questions"
    /\ call.timeoutMs = 2000
    /\ call.intervalMs = 300
    /\ IterationsStarted = 7
    /\ now = 1800
---------------------------------------------------------------------------
(* The optional fetches: GET /question and GET /session/status.            *)

OptionalFetchFails == remote.aux # 200

\* C33: a fetch of the question list or of the session status that is not
\* answered 2xx is no error: opencode_chat_async goes on to post its
\* message, a polling iteration of opencode_wait_for_reply goes to its
\* sleep, a reply is returned with the status absent, the timeout report
\* has the status absent, and opencode_list_questions lists nothing.
OptionalFetchFailureSwallowed ==
    [][OptionalFetchFails =>
          /\ (ChatCall /\ call.pc = "pending" /\ CallSteps)
                => (call'.pc = "post" /\ requests'[Len(requests')].path = "/question")
          /\ (WaitCall /\ call.pc = "questions" /\ CallSteps)
                => (call'.pc = "sleep" /\ requests'[Len(requests')].path = "/question")
          /\ (WaitCall /\ call.pc = "status" /\ CallSteps)
                => /\ call'.pc = "returned"
                   /\ ~call'.result.isError
                   /\ call'.result.outcome = "resolved"
                   /\ call'.result.session_status = "null"
          /\ (WaitCall /\ call.pc = "diagnostics" /\ CallSteps)
                => /\ call'.pc = "returned"
                   /\ ~call'.result.isError
                   /\ call'.result.outcome = "timed_out"
                   /\ call'.result.session_status = "null"
          /\ (call.pc = "idle" /\ call'.tool = "opencode_list_questions")
                => (~call'.result.isError /\ call'.result.count = 0)]_vars

\* opencode_chat_async accepted a prompt for a session with a question
\* pending, the question list being out of reach: the check could not see
\* the question and the message was posted.
OptionalFetchFailureSwallowedWitness ==
    /\ ChatCall
    /\ call.pc = "returned"
    /\ ~call.result.isError
    /\ call.result.outcome = "accepted"
    /\ OptionalFetchFails
    /\ PendingQuestion(Txt(<<"q", "u", "e", "_", "1">>), SessionId, <<Txt(<<"P", "i", "c", "k">>), Txt(<<"C", "o", "n", "f", "i", "r", "m">>)>>)
           \in {remote.questions[i] : i \in 1..Len(remote.questions)}
    /\ Len(requests) = 2
    /\ requests[1].path = "/question"
    /\ requests[2].method = "POST"
---------------------------------------------------------------------------
(* The post of opencode_chat_async and the questions of its session.       *)

\* C34: opencode_chat_async posts no message to a session that has a
\* question pending at the moment of the post, the question list being in
\* reach.
NoPostIntoBlockedSession ==
    [][(ChatCall /\ call.pc = "post" /\ CallSteps /\ remote.aux = 200
           /\ remote.post = 200)
          => EntriesOf(call.targetSessionId) = <<>>]_vars
---------------------------------------------------------------------------
(* A cursor chain over a session that grows while it is read.              *)

MaxAppended == 2

AppendingInit ==
    /\ codec = NoCodec
    /\ call = NoCall
    /\ requests = <<>>
    /\ now = 0
    /\ \E sizes \in Histories :
          /\ remote = [status |-> 200, history |-> History(sizes), mode |-> "oldest"]
          /\ \E limit \in Limits :
                chain = [phase |-> "calling",
                         args |-> [session_id |-> SessionId, limit |-> limit,
                                   max_output_tokens |-> NoNumber,
                                   fields |-> [given |-> TRUE, list |-> <<Star>>]],
                         cursor |-> Absent,
                         called |-> Absent,
                         delivered |-> <<>>,
                         clean |-> TRUE,
                         last |-> NoResult,
                         initial |-> Len(sizes)]

\* The remote appends a message to the session between two calls of the
\* chain.
RemoteAppendsDuringChain ==
    /\ chain.phase = "calling"
    /\ Len(remote.history) < chain.initial + MaxAppended
    /\ \E size \in {"small", "large"} :
          remote' = [remote EXCEPT
                        !.history =
                            Append(@, History([i \in 1..(Len(@) + 1) |-> size])
                                          [Len(@) + 1])]
    /\ UNCHANGED <<chain, codec, call, requests, now>>

AppendingNext == GetPage \/ RemoteAppendsDuringChain

SpecAppending == AppendingInit /\ [][AppendingNext]_vars

\* C35: while the remote appends between the calls of a chain, what the
\* chain has delivered is at every moment the beginning of the session, each
\* message once and in order; the chain ends only when it has delivered the
\* whole session as it was at its last call, the messages there at the start
\* first and the appended ones after them.
AppendedMessagesDelivered ==
    /\ Len(chain.delivered) <= Len(remote.history)
    /\ chain.delivered = SubSeq(remote.history, 1, Len(chain.delivered))
    /\ chain.phase = "done" =>
          /\ ~chain.last.isError
          /\ chain.delivered = remote.history
          /\ Len(chain.delivered) >= chain.initial

\* A chain of pages of one message over a session that had one message at
\* the start and got two more on the way: three pages, three messages.
AppendedMessagesDeliveredWitness ==
    /\ chain.phase = "done"
    /\ chain.initial = 1
    /\ chain.args.limit = Number(1)
    /\ Len(remote.history) = 3
    /\ chain.delivered = remote.history
    /\ chain.last.payload.page.offset = 2
---------------------------------------------------------------------------
(* Pages against a remote whose limit keeps the oldest messages and one    *)
(* whose limit keeps the most recent ones.                                 *)

WindowInit ==
    /\ codec = NoCodec
    /\ call = NoCall
    /\ requests = <<>>
    /\ now = 0
    /\ \E sizes \in Histories, mode \in {"oldest", "recent"} :
          remote = [status |-> 200, history |-> History(sizes), mode |-> mode]
    /\ \E limit \in Limits :
          chain = [phase |-> "calling",
                   args |-> [session_id |-> SessionId, limit |-> limit,
                             max_output_tokens |-> NoNumber,
                             fields |-> [given |-> TRUE, list |-> <<Star>>]],
                   cursor |-> Absent,
                   called |-> Absent,
                   delivered |-> <<>>,
                   clean |-> TRUE,
                   last |-> NoResult]

SpecWindow == WindowInit /\ [][PageNext]_vars

\* The messages of the whole session at the positions of the last page.
SessionAtPage ==
    LET page == chain.last.payload.page IN
    SubSeq(remote.history, page.offset + 1,
           Min(page.offset + page.limit, Len(remote.history)))

\* C36: the items of a page the budget did not cut are the messages of the
\* whole session at the positions offset .. offset + pageSize - 1, whether
\* the limit of the remote keeps the oldest or the most recent messages.
PageIsSessionSlice ==
    (PageReturned /\ ~chain.last.payload.budget.truncated) =>
        chain.last.payload.items = SessionAtPage

\* C36 for the remote whose limit keeps the oldest messages.
PageIsSessionSliceOfOldest ==
    (PageReturned /\ ~chain.last.payload.budget.truncated /\ remote.mode = "oldest") =>
        chain.last.payload.items = SessionAtPage
---------------------------------------------------------------------------
(* One item for every message of the slice.                                *)

RECURSIVE HoldsNothing(_)
\* The value has no leaf: an object or an array, empty or of such values.
HoldsNothing(value) ==
    \/ value.t = "array" /\ \A i \in 1..Len(value.a) : HoldsNothing(value.a[i])
    \/ value.t = "object" /\ \A i \in 1..Len(value.m) : HoldsNothing(value.m[i].v)

\* None of the requested paths exists in the message.
NothingRequestedIn(message) ==
    \A i \in 1..Len(RequestedPaths) : ~pathExists(message, RequestedPaths[i])

\* The page the budget did not cut has one item for every message of the
\* slice, in the order of the slice, and its cursor counts the messages.
OneItemPerMessage ==
    LET page == chain.last.payload.page
        items == chain.last.payload.items
    IN /\ Len(items) = Len(SessionAtPage)
       /\ \A n \in 1..Len(items) :
             IF RequestedFields = <<Star>> THEN items[n] = SessionAtPage[n]
             ELSE ProjectsMessage(items[n], SessionAtPage[n], RequestedPaths)
       /\ page.next_cursor.given =>
             decodeCursor(page.next_cursor).offset.v = page.offset + Len(SessionAtPage)

\* C37: projection removes no message from a page: one item per message of
\* the slice, in order, the cursor counting the messages; and a message in
\* which no requested field exists is delivered as the empty object.
ProjectionDropsNoMessage ==
    (PageReturned /\ ~chain.last.payload.budget.truncated) =>
        /\ OneItemPerMessage
        /\ \A n \in 1..Len(SessionAtPage) :
              (RequestedFields # <<Star>> /\ NothingRequestedIn(SessionAtPage[n]))
                  => chain.last.payload.items[n] = JObj(<<>>)

\* C37: projection removes no message from a page: one item per message of
\* the slice, in order, the cursor counting the messages; and a message in
\* which no requested field exists is delivered as an object that holds no
\* value, the empty object or one whose keys lead to empty arrays only.
ProjectionKeepsEveryMessage ==
    (PageReturned /\ ~chain.last.payload.budget.truncated) =>
        /\ OneItemPerMessage
        /\ \A n \in 1..Len(SessionAtPage) :
              (RequestedFields # <<Star>> /\ NothingRequestedIn(SessionAtPage[n]))
                  => /\ chain.last.payload.items[n].t = "object"
                     /\ HoldsNothing(chain.last.payload.items[n])

\* parts.tool asked of a user message and of a message with a tool part,
\* one message a page: the first page has the one item {parts: []} and a
\* cursor for offset 1.
ProjectionKeepsEveryMessageWitness ==
    /\ PageReturned
    /\ chain.args.fields = [given |-> TRUE, list |-> <<Txt(<<"p", "a", "r", "t", "s", ".", "t", "o", "o", "l">>)>>]
    /\ chain.args.limit = Number(1)
    /\ Len(remote.history) = 2
    /\ remote.history[2] = ProjectedMessage("tooled", 2)
    /\ chain.last.payload.page.offset = 0
    /\ chain.last.payload.items
           = <<JObj(<<[k |-> Txt(<<"p", "a", "r", "t", "s">>), v |-> JArr(<<>>)]>>)>>
    /\ chain.last.payload.projection.missing_fields = <<Txt(<<"p", "a", "r", "t", "s", ".", "t", "o", "o", "l">>)>>
    /\ decodeCursor(chain.last.payload.page.next_cursor).offset.v = 1
---------------------------------------------------------------------------
(* Calls with a cursor before, at and beyond the end of the session.       *)

EndCursors ==
    {Absent} \cup {Given(encodeCursor([offset |-> NumInt(n)])) : n \in 1..(MaxHistory + 1)}

EndBudgets == {Number(1), Number(90), Number(105), Number(120), NoNumber}

EndInit ==
    /\ codec = NoCodec
    /\ call = NoCall
    /\ requests = <<>>
    /\ now = 0
    /\ \E sizes \in Histories, mode \in {"oldest", "recent"} :
          remote = [status |-> 200, history |-> History(sizes), mode |-> mode]
    /\ \E limit \in Limits, budget \in EndBudgets, cursor \in EndCursors :
          chain = [phase |-> "calling",
                   args |-> [session_id |-> SessionId, limit |-> limit,
                             max_output_tokens |-> budget,
                             fields |-> [given |-> FALSE, list |-> <<>>]],
                   cursor |-> cursor,
                   called |-> Absent,
                   delivered |-> <<>>,
                   clean |-> TRUE,
                   last |-> NoResult]

SpecEnd == EndInit /\ [][PageNext]_vars

\* The response of the last call had it found nothing to deliver: no item,
\* has_more false, next_cursor null.
EmptyEnvelope ==
    AssemblePayload([CallArgs EXCEPT !.cursor = chain.called],
                    chain.last.payload.page.offset,
                    [responseItems |-> <<>>, truncatedByBudget |-> FALSE],
                    FALSE, <<>>)

EmptyEnvelopeFits ==
    estimateTokensFromObject(PayloadJson(EmptyEnvelope))
        <= chain.last.payload.budget.max_output_tokens

\* The offset of the last call is at or beyond the end of the session.
OffsetAtEnd == chain.last.payload.page.offset >= Len(remote.history)

\* C38: a call whose offset is at or beyond the end of the session, the
\* empty envelope fitting the budget, returns no item with has_more false,
\* next_cursor null and truncated false; and an empty page with has_more
\* false is returned only when no message is at or after the offset.
EmptyPageOnlyAtEnd ==
    PageReturned =>
        LET payload == chain.last.payload IN
        /\ (OffsetAtEnd /\ EmptyEnvelopeFits) =>
               /\ payload.items = <<>>
               /\ ~payload.page.has_more
               /\ ~payload.page.next_cursor.given
               /\ ~payload.budget.truncated
        /\ (payload.items = <<>> /\ ~payload.page.has_more) => OffsetAtEnd

\* A call with the cursor for offset 3 of a session of three messages on a
\* remote that keeps the most recent ones: the empty page that ends the
\* listing.
EmptyPageOnlyAtEndWitness ==
    /\ PageReturned
    /\ remote.mode = "recent"
    /\ Len(remote.history) = 3
    /\ chain.called = Given(encodeCursor([offset |-> NumInt(3)]))
    /\ chain.last.payload.page.offset = 3
    /\ EmptyEnvelopeFits
    /\ chain.last.payload.items = <<>>
    /\ ~chain.last.payload.page.has_more
    /\ ~chain.last.payload.budget.truncated
    /\ chain.phase = "done"

\* The empty envelope over the budget: the call at the end of the session
\* answers with the notice, truncated and has_more true.
EmptyEnvelopeOverBudget ==
    /\ PageReturned
    /\ OffsetAtEnd
    /\ ~EmptyEnvelopeFits
    /\ chain.last.payload.page.has_more
    /\ chain.last.payload.budget.truncated
---------------------------------------------------------------------------
(* SSE mode: the /sse and /messages handlers around the one `transport`    *)
(* variable of the process.                                                *)

MaxClients == 2
MaxPosts == 3

SseClients == 1..MaxClients

\* `let transport: SSEServerTransport | null = null`
NoTransport == 0

\* The process after app.listen: no transport yet, no client connected, no
\* POST handled.  A transport is named by the number of the connection it
\* was made for.
SseInit ==
    /\ remote = [status |-> 200, history |-> <<>>, mode |-> "oldest"]
    /\ codec = NoCodec
    /\ now = 0
    /\ call = [tool |-> "none", pc |-> "listening", transport |-> NoTransport,
               made |-> 0]
    /\ chain = [connection |-> [client \in SseClients |-> NoTransport]]
    /\ requests = <<>>

\* app.get("/sse"): a new SSEServerTransport for the response of this
\* request is stored in `transport`, whatever was there.
GetSse(client) ==
    /\ call.pc = "listening"
    /\ chain.connection[client] = NoTransport
    /\ call' = [call EXCEPT !.transport = call.made + 1, !.made = call.made + 1]
    /\ chain' = [chain EXCEPT !.connection[client] = call.made + 1]
    /\ UNCHANGED <<remote, codec, requests, now>>

\* app.post("/messages"): transport.handlePostMessage(req, res) of the
\* transport in the variable, or status 400 when there is none.  The
\* client posts to the endpoint its connection announced, if it has one.
PostMessages(client) ==
    /\ call.pc = "listening"
    /\ Len(requests) < MaxPosts
    /\ requests' = Append(requests,
           IF call.transport # NoTransport
           THEN [client |-> client, connection |-> chain.connection[client],
                 handledBy |-> call.transport, status |-> 202]
           ELSE [client |-> client, connection |-> chain.connection[client],
                 handledBy |-> NoTransport, status |-> 400])
    /\ UNCHANGED <<remote, chain, codec, call, now>>

SseNext ==
    \/ \E client \in SseClients : GetSse(client)
    \/ \E client \in SseClients : PostMessages(client)

SpecSse == SseInit /\ [][SseNext]_vars

\* C39: a POST /messages of a connected client is handled by the transport
\* of its own SSE connection, also after a later client has connected; a
\* POST /messages before any SSE connection is answered with status 400.
PostHandledByOwnTransport ==
    \A i \in 1..Len(requests) :
        /\ requests[i].connection # NoTransport
               => requests[i].handledBy = requests[i].connection
        /\ requests[i].status = 400 <=> requests[i].handledBy = NoTransport

\* A POST /messages is answered with status 400 exactly when no SSE
\* connection was made before it, and is otherwise handled by the transport
\* made last.
PostHandledByLastTransport ==
    [][\A client \in SseClients :
          PostMessages(client) =>
              LET post == requests'[Len(requests')] IN
              /\ post.handledBy = call.made
              /\ post.status = IF call.made = 0 THEN 400 ELSE 202]_vars

\* The first client posts after the second has connected.
PostAfterLaterConnection ==
    /\ Len(requests) > 0
    /\ call.made = 2
    /\ requests[Len(requests)].connection = 1
    /\ requests[Len(requests)].handledBy = 2

====
